---------------------------- MODULE Spec2Model ----------------------------
(***************************************************************************)
(* A model of the LibAFL fuzzing-loop kernel:                              *)
(*   - the feedback algebra of libafl/src/feedbacks/mod.rs (leaves,        *)
(*     CombinedFeedback with its four FeedbackLogic policies, NotFeedback, *)
(*     hit attribution under the track_hit_feedbacks feature);             *)
(*   - the tuneable mutational stage of libafl/src/stages/tuneable.rs;     *)
(*   - the harness and set-up of the baby_fuzzer_custom_input example.     *)
(* Specification Spec drives one feedback tree through its Feedback API;   *)
(* SpecChain drives the macro-built chains; SpecTree trees of combinators  *)
(* over exit-kind leaves, eager next to fast; SpecEvaluate the evaluation  *)
(* of an input against a feedback and an objective; SpecBaby the example;  *)
(* SpecStage, SpecSleep, SpecConfig, SpecNames and SpecTimeOnly drive the  *)
(* tuneable stage and its configuration.                                   *)
(***************************************************************************)
EXTENDS Naturals, Sequences, FiniteSets, TLC

VARIABLES
    fb,             \* the feedback tree under test (a struct owning its children)
    twin,           \* a second feedback driven by the same calls (F next to Not(Not(F)),
                    \* the fast variant next to an eager combinator), or the objective
    op,             \* the Feedback method called most recently on fb
    arg,            \* the inputs of that call
    ret,            \* the Result that call returned
    log,            \* the calls that call made on stub feedbacks, in order
    list,           \* the hit-feedback list after the most recent append_hit_feedbacks
    testcase,       \* the testcase after the most recent append_metadata
    run,            \* the most recent is_interesting call on fb: None or Some(record)
    twin_out        \* what the same call returned and produced on twin

fbvars == <<fb, twin, op, arg, ret, log, list, testcase, run, twin_out>>

VARIABLES
    named_metadata, \* State's named-metadata map: name -> TuneableMutationalStageMetadata
    progress,       \* the restart helper's snapshot of the execution counter: None or Some(n)
    stage,          \* the stage invocation in progress: its locals and position
    clock,          \* current_time(), counted from the call of the stage
    executions,     \* State's execution counter
    trace,          \* the calls made by the iteration in progress, in order
    stage_ret,      \* what the most recent stage invocation returned: None or Some(Result)
    invocations     \* how many stage invocations were started

stvars == <<named_metadata, progress, stage, clock, executions, trace, stage_ret, invocations>>

VARIABLES
    corpus,         \* State's main corpus: the inputs added to it, in order
    solutions       \* State's solutions corpus: the inputs added to it, in order

evvars == <<corpus, solutions>>

vars == <<fbvars, stvars, evvars>>

----------------------------------------------------------------------------
(* Option<T> and Result<T, Error> *)

None == <<>>

Some(v) == <<v>>

Ok(v) == [ok |-> TRUE, val |-> v]

\* Ok(())
OkUnit == [ok |-> TRUE]

Err(e) == [ok |-> FALSE, err |-> e]

\* Error::illegal_state("last_result called before Feedback was run")
premature_last_result_err == Err("illegal_state: last_result called before Feedback was run")

\* An error raised by a user-supplied feedback.
StubError == Err("stub error")

----------------------------------------------------------------------------
(* ExitKind and the inputs of a run *)

ExitKinds ==
    { [tag |-> "Ok"], [tag |-> "Crash"], [tag |-> "Timeout"],
      [tag |-> "Diff", primary |-> "Ok", secondary |-> "Crash"],
      [tag |-> "Diff", primary |-> "Timeout", secondary |-> "Ok"] }

\* The names of the user-supplied (stub) feedbacks of the model.
StubNames == {"A", "B"}

\* What a user-supplied Feedback::is_interesting may return.
Verdicts == {Ok(TRUE), Ok(FALSE), StubError}

\* What a user-supplied init_state / append_metadata / discard_metadata may return.
UnitResults == {OkUnit, StubError}

\* TimeObserver::last_runtime(): Option<Duration>
Runtimes == {None, Some(1), Some(2)}

----------------------------------------------------------------------------
(* Constructors *)

CrashFeedback_new == [kind |-> "CrashFeedback", last_result |-> None]

TimeoutFeedback_new == [kind |-> "TimeoutFeedback", last_result |-> None]

DiffExitKindFeedback_new == [kind |-> "DiffExitKindFeedback", last_result |-> None]

TimeFeedback_new == [kind |-> "TimeFeedback", observer_handle |-> "time"]

ConstFeedback_new(val) == [kind |-> "ConstFeedback", val |-> val]

\* impl Feedback for ()
UnitFeedback == [kind |-> "()"]

\* A user-supplied implementor of the Feedback trait: its verdict is chosen by
\* the environment, it may fail, and it keeps its last verdict like the leaves do.
StubFeedback(n) == [kind |-> "Stub", name |-> n, last_result |-> None]

name(f) ==
    CASE f.kind = "CrashFeedback" -> "CrashFeedback"
      [] f.kind = "TimeoutFeedback" -> "TimeoutFeedback"
      [] f.kind = "DiffExitKindFeedback" -> "DiffExitKindFeedback"
      [] f.kind = "TimeFeedback" -> f.observer_handle
      [] f.kind = "ConstFeedback" -> "ConstFeedback"
      [] f.kind = "()" -> "()"
      [] OTHER -> f.name

FeedbackLogic_name(FL) ==
    CASE FL = "LogicEagerOr" -> "Eager OR"
      [] FL = "LogicFastOr" -> "Fast OR"
      [] FL = "LogicEagerAnd" -> "Eager AND"
      [] FL = "LogicFastAnd" -> "Fast AND"

CombinedFeedback_new(first, second, FL) ==
    [kind |-> "CombinedFeedback", first |-> first, second |-> second, logic |-> FL,
     name |-> FeedbackLogic_name(FL) \o " (" \o name(first) \o "," \o name(second) \o ")"]

NotFeedback_new(first) ==
    [kind |-> "NotFeedback", first |-> first, name |-> "Not(" \o name(first) \o ")"]

RECURSIVE feedback_and(_), feedback_and_fast(_), feedback_or(_), feedback_or_fast(_)
RECURSIVE feedback_or_fast_eager(_)

\* The four variadic macros, on the sequence of their arguments: the last
\* argument alone, or the head combined with the macro of the tail.
feedback_and(fs) ==
    IF Len(fs) = 1 THEN fs[1]
    ELSE CombinedFeedback_new(fs[1], feedback_and(Tail(fs)), "LogicEagerAnd")

feedback_and_fast(fs) ==
    IF Len(fs) = 1 THEN fs[1]
    ELSE CombinedFeedback_new(fs[1], feedback_and_fast(Tail(fs)), "LogicFastAnd")

feedback_or(fs) ==
    IF Len(fs) = 1 THEN fs[1]
    ELSE CombinedFeedback_new(fs[1], feedback_or(Tail(fs)), "LogicEagerOr")

\* Mutant: the chain is built from EagerOrFeedback.
feedback_or_fast_eager(fs) ==
    IF Len(fs) = 1 THEN fs[1]
    ELSE CombinedFeedback_new(fs[1], feedback_or_fast_eager(Tail(fs)), "LogicEagerOr")

feedback_or_fast(fs) ==
    IF Len(fs) = 1 THEN fs[1]
    ELSE CombinedFeedback_new(fs[1], feedback_or_fast(Tail(fs)), "LogicFastOr")

Logics == {"LogicEagerOr", "LogicFastOr", "LogicEagerAnd", "LogicFastAnd"}

OrLogics == {"LogicEagerOr", "LogicFastOr"}

AndLogics == {"LogicEagerAnd", "LogicFastAnd"}

----------------------------------------------------------------------------
(* is_interesting.  Every operator takes the feedback (self), the inputs of  *)
(* the run and the call log so far, and returns                             *)
(* [ret: the Result, self: the feedback afterwards, log: the log afterwards] *)

RECURSIVE is_interesting(_, _, _)

CrashFeedback_is_interesting(self, env, lg) ==
    LET res == env.exit_kind.tag = "Crash"
    IN  [ret |-> Ok(res), self |-> [self EXCEPT !.last_result = Some(res)], log |-> lg]

\* Mutant: TimeoutFeedback matching the exit kind of CrashFeedback.
TimeoutFeedback_is_interesting_crash(self, env, lg) ==
    LET res == env.exit_kind.tag = "Crash"
    IN  [ret |-> Ok(res), self |-> [self EXCEPT !.last_result = Some(res)], log |-> lg]

TimeoutFeedback_is_interesting(self, env, lg) ==
    LET res == env.exit_kind.tag = "Timeout"
    IN  [ret |-> Ok(res), self |-> [self EXCEPT !.last_result = Some(res)], log |-> lg]

DiffExitKindFeedback_is_interesting(self, env, lg) ==
    LET res == env.exit_kind.tag = "Diff"
    IN  [ret |-> Ok(res), self |-> [self EXCEPT !.last_result = Some(res)], log |-> lg]

TimeFeedback_is_interesting(self, env, lg) ==
    [ret |-> Ok(FALSE), self |-> self, log |-> lg]

ConstFeedback_is_interesting(self, env, lg) ==
    [ret |-> Ok(self.val), self |-> self, log |-> lg]

UnitFeedback_is_interesting(self, env, lg) ==
    [ret |-> Ok(FALSE), self |-> self, log |-> lg]

Stub_is_interesting(self, env, lg) ==
    LET r == env.verdict[self.name]
    IN  [ret |-> r,
         self |-> IF r.ok THEN [self EXCEPT !.last_result = Some(r.val)] ELSE self,
         log |-> Append(lg, <<self.name, "is_interesting">>)]

\* The two closures of CombinedFeedback::is_interesting are given by the children
\* they capture; calling a closure is calling is_interesting on that child.
\* The result also carries both children as the call leaves them.
\* Mutant: || in place of |, so that the second closure is skipped when the first is true.
LogicEagerOr_is_pair_interesting_lazy(first, second, env, lg) ==
    LET a == is_interesting(first, env, lg)
        b == is_interesting(second, env, a.log)
    IN  IF ~a.ret.ok
        THEN [ret |-> a.ret, first |-> a.self, second |-> second, log |-> a.log]
        ELSE IF a.ret.val
        THEN [ret |-> Ok(TRUE), first |-> a.self, second |-> second, log |-> a.log]
        ELSE [ret |-> b.ret, first |-> a.self, second |-> b.self, log |-> b.log]

LogicEagerOr_is_pair_interesting(first, second, env, lg) ==
    LET a == is_interesting(first, env, lg)
        b == is_interesting(second, env, a.log)
    IN  IF ~a.ret.ok
        THEN [ret |-> a.ret, first |-> a.self, second |-> second, log |-> a.log]
        ELSE IF ~b.ret.ok
        THEN [ret |-> b.ret, first |-> a.self, second |-> b.self, log |-> b.log]
        ELSE [ret |-> Ok(a.ret.val \/ b.ret.val),
              first |-> a.self, second |-> b.self, log |-> b.log]

\* Mutant: the second closure is called before the first result is looked at.
LogicFastOr_is_pair_interesting_eager(first, second, env, lg) ==
    LET a == is_interesting(first, env, lg)
        b == is_interesting(second, env, a.log)
    IN  IF ~a.ret.ok
        THEN [ret |-> a.ret, first |-> a.self, second |-> second, log |-> a.log]
        ELSE IF ~b.ret.ok
        THEN [ret |-> b.ret, first |-> a.self, second |-> b.self, log |-> b.log]
        ELSE [ret |-> Ok(a.ret.val \/ b.ret.val),
              first |-> a.self, second |-> b.self, log |-> b.log]

LogicFastOr_is_pair_interesting(first, second, env, lg) ==
    LET a == is_interesting(first, env, lg)
        b == is_interesting(second, env, a.log)
    IN  IF ~a.ret.ok
        THEN [ret |-> a.ret, first |-> a.self, second |-> second, log |-> a.log]
        ELSE IF a.ret.val
        THEN [ret |-> Ok(TRUE), first |-> a.self, second |-> second, log |-> a.log]
        ELSE [ret |-> b.ret, first |-> a.self, second |-> b.self, log |-> b.log]

\* Mutant: both closures are called before either result is unwrapped.
LogicEagerAnd_is_pair_interesting_both(first, second, env, lg) ==
    LET a == is_interesting(first, env, lg)
        b == is_interesting(second, env, a.log)
    IN  IF ~a.ret.ok
        THEN [ret |-> a.ret, first |-> a.self, second |-> b.self, log |-> b.log]
        ELSE IF ~b.ret.ok
        THEN [ret |-> b.ret, first |-> a.self, second |-> b.self, log |-> b.log]
        ELSE [ret |-> Ok(a.ret.val /\ b.ret.val),
              first |-> a.self, second |-> b.self, log |-> b.log]

LogicEagerAnd_is_pair_interesting(first, second, env, lg) ==
    LET a == is_interesting(first, env, lg)
        b == is_interesting(second, env, a.log)
    IN  IF ~a.ret.ok
        THEN [ret |-> a.ret, first |-> a.self, second |-> second, log |-> a.log]
        ELSE IF ~b.ret.ok
        THEN [ret |-> b.ret, first |-> a.self, second |-> b.self, log |-> b.log]
        ELSE [ret |-> Ok(a.ret.val /\ b.ret.val),
              first |-> a.self, second |-> b.self, log |-> b.log]

\* Mutant: || in place of &&.
LogicFastAnd_is_pair_interesting_or(first, second, env, lg) ==
    LET a == is_interesting(first, env, lg)
        b == is_interesting(second, env, a.log)
    IN  IF ~a.ret.ok
        THEN [ret |-> a.ret, first |-> a.self, second |-> second, log |-> a.log]
        ELSE IF a.ret.val
        THEN [ret |-> Ok(TRUE), first |-> a.self, second |-> second, log |-> a.log]
        ELSE [ret |-> b.ret, first |-> a.self, second |-> b.self, log |-> b.log]

LogicFastAnd_is_pair_interesting(first, second, env, lg) ==
    LET a == is_interesting(first, env, lg)
        b == is_interesting(second, env, a.log)
    IN  IF ~a.ret.ok
        THEN [ret |-> a.ret, first |-> a.self, second |-> second, log |-> a.log]
        ELSE IF ~a.ret.val
        THEN [ret |-> Ok(FALSE), first |-> a.self, second |-> second, log |-> a.log]
        ELSE IF ~b.ret.ok
        THEN [ret |-> b.ret, first |-> a.self, second |-> b.self, log |-> b.log]
        ELSE [ret |-> Ok(b.ret.val), first |-> a.self, second |-> b.self, log |-> b.log]

CombinedFeedback_is_interesting(self, env, lg) ==
    LET p == CASE self.logic = "LogicEagerOr" ->
                    LogicEagerOr_is_pair_interesting(self.first, self.second, env, lg)
               [] self.logic = "LogicFastOr" ->
                    LogicFastOr_is_pair_interesting(self.first, self.second, env, lg)
               [] self.logic = "LogicEagerAnd" ->
                    LogicEagerAnd_is_pair_interesting(self.first, self.second, env, lg)
               [] self.logic = "LogicFastAnd" ->
                    LogicFastAnd_is_pair_interesting(self.first, self.second, env, lg)
    IN  [ret |-> p.ret,
         self |-> [self EXCEPT !.first = p.first, !.second = p.second],
         log |-> p.log]

NotFeedback_is_interesting(self, env, lg) ==
    LET a == is_interesting(self.first, env, lg)
    IN  [ret |-> IF a.ret.ok THEN Ok(~a.ret.val) ELSE a.ret,
         self |-> [self EXCEPT !.first = a.self],
         log |-> a.log]

is_interesting(self, env, lg) ==
    CASE self.kind = "CrashFeedback" -> CrashFeedback_is_interesting(self, env, lg)
      [] self.kind = "TimeoutFeedback" -> TimeoutFeedback_is_interesting(self, env, lg)
      [] self.kind = "DiffExitKindFeedback" -> DiffExitKindFeedback_is_interesting(self, env, lg)
      [] self.kind = "TimeFeedback" -> TimeFeedback_is_interesting(self, env, lg)
      [] self.kind = "ConstFeedback" -> ConstFeedback_is_interesting(self, env, lg)
      [] self.kind = "()" -> UnitFeedback_is_interesting(self, env, lg)
      [] self.kind = "Stub" -> Stub_is_interesting(self, env, lg)
      [] self.kind = "CombinedFeedback" -> CombinedFeedback_is_interesting(self, env, lg)
      [] self.kind = "NotFeedback" -> NotFeedback_is_interesting(self, env, lg)

----------------------------------------------------------------------------
(* last_result (feature track_hit_feedbacks) *)

RECURSIVE last_result(_)

\* Mutant: unwrap_or(false) in place of ok_or(premature_last_result_err()).
CrashFeedback_last_result_default(self) ==
    IF self.last_result = None THEN Ok(FALSE) ELSE Ok(self.last_result[1])

CrashFeedback_last_result(self) ==
    IF self.last_result = None THEN premature_last_result_err ELSE Ok(self.last_result[1])

TimeoutFeedback_last_result(self) ==
    IF self.last_result = None THEN premature_last_result_err ELSE Ok(self.last_result[1])

DiffExitKindFeedback_last_result(self) ==
    IF self.last_result = None THEN premature_last_result_err ELSE Ok(self.last_result[1])

TimeFeedback_last_result(self) == Ok(FALSE)

ConstFeedback_last_result(self) == Ok(self.val)

UnitFeedback_last_result(self) == Ok(FALSE)

Stub_last_result(self) ==
    IF self.last_result = None THEN premature_last_result_err ELSE Ok(self.last_result[1])

\* first.and_then(|first| second.map(|second| first | second))
LogicEagerOr_last_result(first, second) ==
    IF ~first.ok THEN first
    ELSE IF ~second.ok THEN second
    ELSE Ok(first.val \/ second.val)

\* Mutant: the second child's cache is read whatever the first one holds.
LogicFastOr_last_result_both(first, second) ==
    IF ~first.ok THEN first
    ELSE IF ~second.ok THEN second
    ELSE Ok(first.val \/ second.val)

\* first.and_then(|first| Ok(first || second?))
LogicFastOr_last_result(first, second) ==
    IF ~first.ok THEN first
    ELSE IF first.val THEN Ok(TRUE)
    ELSE second

\* Ok(first? & second?)
LogicEagerAnd_last_result(first, second) ==
    IF ~first.ok THEN first
    ELSE IF ~second.ok THEN second
    ELSE Ok(first.val /\ second.val)

\* Mutant: & in place of &&, so that the second result is unwrapped when the first is false.
LogicFastAnd_last_result_both(first, second) ==
    IF ~first.ok THEN first
    ELSE IF ~second.ok THEN second
    ELSE Ok(first.val /\ second.val)

\* Ok(first? && second?)
LogicFastAnd_last_result(first, second) ==
    IF ~first.ok THEN first
    ELSE IF ~first.val THEN Ok(FALSE)
    ELSE second

CombinedFeedback_last_result(self) ==
    LET first == last_result(self.first)
        second == last_result(self.second)
    IN  CASE self.logic = "LogicEagerOr" -> LogicEagerOr_last_result(first, second)
          [] self.logic = "LogicFastOr" -> LogicFastOr_last_result(first, second)
          [] self.logic = "LogicEagerAnd" -> LogicEagerAnd_last_result(first, second)
          [] self.logic = "LogicFastAnd" -> LogicFastAnd_last_result(first, second)

NotFeedback_last_result(self) ==
    LET r == last_result(self.first)
    IN  IF r.ok THEN Ok(~r.val) ELSE r

last_result(self) ==
    CASE self.kind = "CrashFeedback" -> CrashFeedback_last_result(self)
      [] self.kind = "TimeoutFeedback" -> TimeoutFeedback_last_result(self)
      [] self.kind = "DiffExitKindFeedback" -> DiffExitKindFeedback_last_result(self)
      [] self.kind = "TimeFeedback" -> TimeFeedback_last_result(self)
      [] self.kind = "ConstFeedback" -> ConstFeedback_last_result(self)
      [] self.kind = "()" -> UnitFeedback_last_result(self)
      [] self.kind = "Stub" -> Stub_last_result(self)
      [] self.kind = "CombinedFeedback" -> CombinedFeedback_last_result(self)
      [] self.kind = "NotFeedback" -> NotFeedback_last_result(self)

----------------------------------------------------------------------------
(* append_hit_feedbacks (feature track_hit_feedbacks).  Every operator takes *)
(* the Vec of names and returns [ret: Result<(), Error>, list: the Vec       *)
(* afterwards].                                                              *)

RECURSIVE append_hit_feedbacks(_, _)

\* The trait's default method, used by every leaf and by NotFeedback.
Feedback_append_hit_feedbacks(self, l) ==
    LET r == last_result(self)
    IN  IF ~r.ok THEN [ret |-> r, list |-> l]
        ELSE IF r.val THEN [ret |-> OkUnit, list |-> Append(l, name(self))]
        ELSE [ret |-> OkUnit, list |-> l]

\* The closures if_first and if_second are given by the children they capture.
\* Mutant: the second branch calls if_first in place of if_second.
LogicFastOr_append_hit_feedbacks_swapped(first_result, if_first, second_result, if_second, l) ==
    IF ~first_result.ok THEN [ret |-> first_result, list |-> l]
    ELSE IF first_result.val THEN append_hit_feedbacks(if_first, l)
    ELSE IF ~second_result.ok THEN [ret |-> second_result, list |-> l]
    ELSE IF second_result.val THEN append_hit_feedbacks(if_first, l)
    ELSE [ret |-> OkUnit, list |-> l]

LogicFastOr_append_hit_feedbacks(first_result, if_first, second_result, if_second, l) ==
    IF ~first_result.ok THEN [ret |-> first_result, list |-> l]
    ELSE IF first_result.val THEN append_hit_feedbacks(if_first, l)
    ELSE IF ~second_result.ok THEN [ret |-> second_result, list |-> l]
    ELSE IF second_result.val THEN append_hit_feedbacks(if_second, l)
    ELSE [ret |-> OkUnit, list |-> l]

\* Mutant: the eager OR reports every true child instead of delegating to the fast rule.
LogicEagerOr_append_hit_feedbacks_all(first_result, if_first, second_result, if_second, l) ==
    IF ~first_result.ok THEN [ret |-> first_result, list |-> l]
    ELSE IF ~second_result.ok THEN [ret |-> second_result, list |-> l]
    ELSE LET a == IF first_result.val
                  THEN append_hit_feedbacks(if_first, l)
                  ELSE [ret |-> OkUnit, list |-> l]
         IN  IF ~a.ret.ok \/ ~second_result.val
             THEN a
             ELSE append_hit_feedbacks(if_second, a.list)

LogicEagerOr_append_hit_feedbacks(first_result, if_first, second_result, if_second, l) ==
    LogicFastOr_append_hit_feedbacks(first_result, if_first, second_result, if_second, l)

\* Mutant: if_second is left out of the eager AND.
LogicEagerAnd_append_hit_feedbacks_one(first_result, if_first, second_result, if_second, l) ==
    IF ~first_result.ok THEN [ret |-> first_result, list |-> l]
    ELSE IF ~second_result.ok THEN [ret |-> second_result, list |-> l]
    ELSE IF first_result.val /\ second_result.val
    THEN append_hit_feedbacks(if_first, l)
    ELSE [ret |-> OkUnit, list |-> l]

\* if first_result? & second_result? { if_first(list)?; if_second(list)?; } Ok(())
LogicEagerAnd_append_hit_feedbacks(first_result, if_first, second_result, if_second, l) ==
    IF ~first_result.ok THEN [ret |-> first_result, list |-> l]
    ELSE IF ~second_result.ok THEN [ret |-> second_result, list |-> l]
    ELSE IF first_result.val /\ second_result.val
    THEN LET a == append_hit_feedbacks(if_first, l)
         IN  IF ~a.ret.ok THEN a ELSE append_hit_feedbacks(if_second, a.list)
    ELSE [ret |-> OkUnit, list |-> l]

\* Mutant: if_second is never called.
LogicFastAnd_append_hit_feedbacks_first(first_result, if_first, second_result, if_second, l) ==
    IF ~first_result.ok THEN [ret |-> first_result, list |-> l]
    ELSE IF ~first_result.val THEN [ret |-> OkUnit, list |-> l]
    ELSE IF ~second_result.ok THEN [ret |-> second_result, list |-> l]
    ELSE IF second_result.val THEN append_hit_feedbacks(if_first, l)
    ELSE [ret |-> OkUnit, list |-> l]

\* if first_result? && second_result? { if_first(list)?; if_second(list)?; } Ok(())
LogicFastAnd_append_hit_feedbacks(first_result, if_first, second_result, if_second, l) ==
    IF ~first_result.ok THEN [ret |-> first_result, list |-> l]
    ELSE IF ~first_result.val THEN [ret |-> OkUnit, list |-> l]
    ELSE IF ~second_result.ok THEN [ret |-> second_result, list |-> l]
    ELSE IF second_result.val
    THEN LET a == append_hit_feedbacks(if_first, l)
         IN  IF ~a.ret.ok THEN a ELSE append_hit_feedbacks(if_second, a.list)
    ELSE [ret |-> OkUnit, list |-> l]

CombinedFeedback_append_hit_feedbacks(self, l) ==
    LET fr == last_result(self.first)
        sr == last_result(self.second)
    IN  CASE self.logic = "LogicEagerOr" ->
                LogicEagerOr_append_hit_feedbacks(fr, self.first, sr, self.second, l)
          [] self.logic = "LogicFastOr" ->
                LogicFastOr_append_hit_feedbacks(fr, self.first, sr, self.second, l)
          [] self.logic = "LogicEagerAnd" ->
                LogicEagerAnd_append_hit_feedbacks(fr, self.first, sr, self.second, l)
          [] self.logic = "LogicFastAnd" ->
                LogicFastAnd_append_hit_feedbacks(fr, self.first, sr, self.second, l)

append_hit_feedbacks(self, l) ==
    IF self.kind = "CombinedFeedback"
    THEN CombinedFeedback_append_hit_feedbacks(self, l)
    ELSE Feedback_append_hit_feedbacks(self, l)

----------------------------------------------------------------------------
(* init_state, append_metadata, discard_metadata.  append_metadata takes the *)
(* testcase and returns [ret, log, testcase]; the other two return           *)
(* [ret, log].  None of the feedbacks of this module changes its own fields  *)
(* in these methods.                                                         *)

RECURSIVE init_state(_, _, _)

\* The trait's default: Ok(())
Feedback_init_state(self, env, lg) == [ret |-> OkUnit, log |-> lg]

Stub_init_state(self, env, lg) ==
    [ret |-> env.unit[self.name], log |-> Append(lg, <<self.name, "init_state">>)]

CombinedFeedback_init_state(self, env, lg) ==
    LET a == init_state(self.first, env, lg)
    IN  IF ~a.ret.ok THEN a ELSE init_state(self.second, env, a.log)

NotFeedback_init_state(self, env, lg) == init_state(self.first, env, lg)

init_state(self, env, lg) ==
    CASE self.kind = "Stub" -> Stub_init_state(self, env, lg)
      [] self.kind = "CombinedFeedback" -> CombinedFeedback_init_state(self, env, lg)
      [] self.kind = "NotFeedback" -> NotFeedback_init_state(self, env, lg)
      [] OTHER -> Feedback_init_state(self, env, lg)

RECURSIVE append_metadata(_, _, _, _)

\* The trait's default: Ok(())
Feedback_append_metadata(self, env, lg, tc) ==
    [ret |-> OkUnit, log |-> lg, testcase |-> tc]

\* *testcase.exec_time_mut() = *observer.last_runtime()
TimeFeedback_append_metadata(self, env, lg, tc) ==
    [ret |-> OkUnit, log |-> lg, testcase |-> [tc EXCEPT !.exec_time = env.last_runtime]]

\* A user-supplied append_metadata: it tags the testcase with its name when it succeeds.
Stub_append_metadata(self, env, lg, tc) ==
    LET r == env.unit[self.name]
    IN  [ret |-> r,
         log |-> Append(lg, <<self.name, "append_metadata">>),
         testcase |-> IF r.ok THEN [tc EXCEPT !.metadata = Append(@, self.name)] ELSE tc]

\* Mutant: the second child's append_metadata is forgotten.
CombinedFeedback_append_metadata_first(self, env, lg, tc) ==
    append_metadata(self.first, env, lg, tc)

CombinedFeedback_append_metadata(self, env, lg, tc) ==
    LET a == append_metadata(self.first, env, lg, tc)
    IN  IF ~a.ret.ok THEN a ELSE append_metadata(self.second, env, a.log, a.testcase)

\* Mutant: NotFeedback keeps the trait's default and does not delegate.
NotFeedback_append_metadata_default(self, env, lg, tc) ==
    [ret |-> OkUnit, log |-> lg, testcase |-> tc]

NotFeedback_append_metadata(self, env, lg, tc) == append_metadata(self.first, env, lg, tc)

append_metadata(self, env, lg, tc) ==
    CASE self.kind = "TimeFeedback" -> TimeFeedback_append_metadata(self, env, lg, tc)
      [] self.kind = "Stub" -> Stub_append_metadata(self, env, lg, tc)
      [] self.kind = "CombinedFeedback" -> CombinedFeedback_append_metadata(self, env, lg, tc)
      [] self.kind = "NotFeedback" -> NotFeedback_append_metadata(self, env, lg, tc)
      [] OTHER -> Feedback_append_metadata(self, env, lg, tc)

RECURSIVE discard_metadata(_, _, _)

\* The trait's default, and TimeFeedback's: Ok(())
Feedback_discard_metadata(self, env, lg) == [ret |-> OkUnit, log |-> lg]

Stub_discard_metadata(self, env, lg) ==
    [ret |-> env.unit[self.name], log |-> Append(lg, <<self.name, "discard_metadata">>)]

\* Mutant: the second child's discard_metadata is forgotten.
CombinedFeedback_discard_metadata_first(self, env, lg) ==
    discard_metadata(self.first, env, lg)

CombinedFeedback_discard_metadata(self, env, lg) ==
    LET a == discard_metadata(self.first, env, lg)
    IN  IF ~a.ret.ok THEN a ELSE discard_metadata(self.second, env, a.log)

NotFeedback_discard_metadata(self, env, lg) == discard_metadata(self.first, env, lg)

discard_metadata(self, env, lg) ==
    CASE self.kind = "Stub" -> Stub_discard_metadata(self, env, lg)
      [] self.kind = "CombinedFeedback" -> CombinedFeedback_discard_metadata(self, env, lg)
      [] self.kind = "NotFeedback" -> NotFeedback_discard_metadata(self, env, lg)
      [] OTHER -> Feedback_discard_metadata(self, env, lg)

----------------------------------------------------------------------------
(* The feedback trees the model drives *)

SourceLeaves ==
    { CrashFeedback_new, TimeoutFeedback_new, DiffExitKindFeedback_new, TimeFeedback_new,
      ConstFeedback_new(TRUE), ConstFeedback_new(FALSE) }

Leaves == SourceLeaves \cup {StubFeedback("A")}

\* Two user-supplied feedbacks under each of the four combinators.
StubPairs == { CombinedFeedback_new(StubFeedback("A"), StubFeedback("B"), FL) : FL \in Logics }

\* Every pair of leaves of the source under each of the four combinators.
LeafPairs ==
    { CombinedFeedback_new(x, y, FL) : x \in SourceLeaves, y \in SourceLeaves, FL \in Logics }

\* The feedbacks F for which Not(Not(F)) is driven next to F alone.
Inner ==
    Leaves \cup StubPairs
    \cup { CombinedFeedback_new(ConstFeedback_new(TRUE), CrashFeedback_new, FL) : FL \in Logics }

\* The longest chain of user-supplied feedbacks given to a macro.
MaxChain == 3

\* The names of the user-supplied feedbacks of a chain, in the order of the
\* macro's arguments.
StubSeq == <<"A", "B", "C", "D">>

ChainStubs(n) == [i \in 1..n |-> StubFeedback(StubSeq[i])]

\* feedback_and!, feedback_and_fast!, feedback_or! and feedback_or_fast! on
\* 2..MaxChain user-supplied feedbacks.
Chains ==
    UNION { { feedback_and(ChainStubs(n)), feedback_and_fast(ChainStubs(n)),
              feedback_or(ChainStubs(n)), feedback_or_fast(ChainStubs(n)) } : n \in 2..MaxChain }

Trees ==
    Leaves \cup StubPairs \cup LeafPairs
    \cup { NotFeedback_new(x) : x \in Leaves }
    \cup { NotFeedback_new(NotFeedback_new(x)) : x \in Inner }

IsStubPair(f) ==
    /\ f.kind = "CombinedFeedback"
    /\ f.first.kind = "Stub"
    /\ f.second.kind = "Stub"

IsLeaf(f) == f.kind \notin {"CombinedFeedback", "NotFeedback"}

IsNotNot(f) == f.kind = "NotFeedback" /\ f.first.kind = "NotFeedback"

RECURSIVE StubsOf(_)

\* The names of the user-supplied feedbacks in a tree.
StubsOf(f) ==
    CASE f.kind = "Stub" -> {f.name}
      [] f.kind = "CombinedFeedback" -> StubsOf(f.first) \cup StubsOf(f.second)
      [] f.kind = "NotFeedback" -> StubsOf(f.first)
      [] OTHER -> {}

RECURSIVE KindsOf(_)

\* The kinds of the nodes of a tree.
KindsOf(f) ==
    CASE f.kind = "CombinedFeedback" -> {f.kind} \cup KindsOf(f.first) \cup KindsOf(f.second)
      [] f.kind = "NotFeedback" -> {f.kind} \cup KindsOf(f.first)
      [] OTHER -> {f.kind}

\* The exit kinds a tree is driven with: all of them when one of its leaves reads
\* the exit kind, and Ok alone when none does.
ExitKindsFor(f) ==
    IF KindsOf(f) \cap {"CrashFeedback", "TimeoutFeedback", "DiffExitKindFeedback"} # {}
    THEN ExitKinds
    ELSE {[tag |-> "Ok"]}

\* The observer runtimes a tree is driven with: all of them when it holds a
\* TimeFeedback, the only feedback that reads the TimeObserver.
RuntimesFor(f) == IF "TimeFeedback" \in KindsOf(f) THEN Runtimes ELSE {None}

\* Testcase::new: no execution time, no metadata.
Testcase_new == [exec_time |-> None, metadata |-> <<>>]

\* How often the stub named n was called in a call log.
Calls(lg, n) == Cardinality({i \in 1..Len(lg) : lg[i][1] = n})

----------------------------------------------------------------------------
(* The tuneable stage: its configuration in State's named-metadata map *)

\* The default name of the tuneable mutational stage.
STD_TUNEABLE_MUTATIONAL_STAGE_NAME == "TuneableMutationalStage"

\* Error::illegal_state("TuneableMutationalStage not in use")
not_in_use_err == Err("illegal_state: TuneableMutationalStage not in use")

\* TuneableMutationalStageMetadata::default()
TuneableMutationalStageMetadata_default == [iters |-> None, fuzz_time |-> None]

\* Every operator on the map takes the map and returns [ret, map].
\* Mutant: the entry is created when it is missing.
set_iters_by_name_insert(md, iters, n) ==
    [ret |-> OkUnit,
     map |-> [k \in DOMAIN md \cup {n} |->
                IF k = n THEN [iters |-> Some(iters), fuzz_time |-> None] ELSE md[k]]]

set_iters_by_name(md, iters, n) ==
    IF n \notin DOMAIN md THEN [ret |-> not_in_use_err, map |-> md]
    ELSE [ret |-> OkUnit, map |-> [md EXCEPT ![n].iters = Some(iters)]]

get_iters_by_name(md, n) ==
    IF n \notin DOMAIN md THEN not_in_use_err ELSE Ok(md[n].iters)

\* Mutant: setting the fuzz time clears the iterations of the entry.
set_seed_fuzz_time_by_name_exclusive(md, fuzz_time, n) ==
    IF n \notin DOMAIN md THEN [ret |-> not_in_use_err, map |-> md]
    ELSE [ret |-> OkUnit,
          map |-> [md EXCEPT ![n] = [iters |-> None, fuzz_time |-> Some(fuzz_time)]]]

set_seed_fuzz_time_by_name(md, fuzz_time, n) ==
    IF n \notin DOMAIN md THEN [ret |-> not_in_use_err, map |-> md]
    ELSE [ret |-> OkUnit, map |-> [md EXCEPT ![n].fuzz_time = Some(fuzz_time)]]

get_seed_fuzz_time_by_name(md, n) ==
    IF n \notin DOMAIN md THEN not_in_use_err ELSE Ok(md[n].fuzz_time)

\* Mutant: reset clears the iteration cap only.
reset_by_name_iters_only(md, n) ==
    IF n \notin DOMAIN md THEN [ret |-> not_in_use_err, map |-> md]
    ELSE [ret |-> OkUnit, map |-> [md EXCEPT ![n].iters = None]]

reset_by_name(md, n) ==
    IF n \notin DOMAIN md THEN [ret |-> not_in_use_err, map |-> md]
    ELSE [ret |-> OkUnit, map |-> [md EXCEPT ![n] = [iters |-> None, fuzz_time |-> None]]]

\* Mutant: the default is inserted whether or not the name has an entry.
transforming_insert(md, n) ==
    [k \in DOMAIN md \cup {n} |->
        IF k = n THEN TuneableMutationalStageMetadata_default ELSE md[k]]

\* TuneableMutationalStage::transforming: named_metadata_or_insert_with(name, default)
transforming(md, n) ==
    IF n \in DOMAIN md THEN md
    ELSE [k \in DOMAIN md \cup {n} |->
            IF k = n THEN TuneableMutationalStageMetadata_default ELSE md[k]]

\* Mutant: nothing is subtracted.
saturating_sub_nothing(a, b) == a

\* Mutant: the operands are swapped.
saturating_sub_swapped(a, b) == IF b >= a THEN b - a ELSE 0

\* usize::saturating_sub
saturating_sub(a, b) == IF a >= b THEN a - b ELSE 0

----------------------------------------------------------------------------
(* The tuneable stage: one invocation *)

\* Bounds of the model.
MaxIters == 2

MaxFuzzTime == 2

MaxClock == 3

MaxInvocations == 2

\* The largest randomized budget (the model's value of the library's constant).
MaxRandomIters == 2

DEFAULT_MUTATIONAL_MAX_ITERATIONS == MaxRandomIters

\* No invocation of the model starts more iterations than this; it is above
\* every budget that set_iters or the randomized draw can give.
MaxLoop == (IF MaxIters > MaxRandomIters THEN MaxIters ELSE MaxRandomIters) + 1

\* The names under which the model constructs and configures stages.
StageNames == {STD_TUNEABLE_MUTATIONAL_STAGE_NAME}

\* The locals of perform_mutational and the counts of what an invocation did.
\*   pc          where the invocation stands
\*   fuzz_time   the configuration read at line 183
\*   iters       the configuration read at line 184
\*   limit       the upper end of the loop's range: Some(n), or None for 1..
\*   start_time  the clock read before the loop of the two timed branches
\*   i           how many iterations the loop has started
\*   transformed whether try_transform_from gave an input
\*   mutations   how many times the mutator's mutate was called
\*   evals       how many times evaluate_input was called
\*   corpus_id   what evaluate_input returned in the iteration in progress
\*   refused     whether try_transform_from refused the testcase
\*   input       the transformed input that try_transform_from gave
\*   clone       the clone of it that the iteration in progress works on
\*   mutated     the MutationResult of the iteration's mutate call
\*   skipped     how many mutate calls returned Skipped
\*   elapsed     current_time() - start_time as the latest loop head read it
\*   budget      what iterations() drew (randomized branch)
\*   since       what execs_since_progress_start returned (randomized branch)
\*   first_budget  the first budget drawn since the progress snapshot was taken
\*   entry       the execution counter when perform_mutational was entered
\*   iter_start  the execution counter, execs_since_progress_start and the
\*               corpora when the iteration began
\*   corpus, solutions  whether evaluate_input added an entry to either corpus
\*   last_cfg    the most recent call of a setter or of reset, with its argument
\*   after_clear whether clear_progress was the last call before should_restart
\*   failed      the call of perform_mutation that returned an error
\*   borrow      the borrow of the current testcase taken at line 187
\*   cfg_call    the most recent by-name call of a setter or of reset: its
\*               method, the name it was given and what it returned
StageIdle ==
    [pc |-> "idle", name |-> STD_TUNEABLE_MUTATIONAL_STAGE_NAME,
     fuzz_time |-> None, iters |-> None, limit |-> None, start_time |-> 0, i |-> 0,
     transformed |-> FALSE, mutations |-> 0, evals |-> 0, corpus_id |-> None,
     refused |-> FALSE, input |-> None, clone |-> None, mutated |-> None, skipped |-> 0,
     elapsed |-> None, budget |-> None, since |-> None,
     first_budget |-> None, entry |-> 0, iter_start |-> None, corpus |-> FALSE, solutions |-> FALSE,
     last_cfg |-> None, after_clear |-> FALSE, failed |-> None, borrow |-> "none",
     cfg_call |-> None]

\* Both corpora as State::new receives them.
CorporaInit ==
    /\ corpus = <<>>
    /\ solutions = <<>>

StageFixed ==
    /\ CorporaInit
    /\ named_metadata = <<>>
    /\ progress = None
    /\ stage = StageIdle
    /\ clock = 0
    /\ executions = 0
    /\ trace = <<>>
    /\ stage_ret = None
    /\ invocations = 0

FeedbackFixed ==
    /\ fb = UnitFeedback
    /\ twin = UnitFeedback
    /\ op = "new"
    /\ arg = <<>>
    /\ ret = OkUnit
    /\ log = <<>>
    /\ list = <<>>
    /\ testcase = [exec_time |-> None, metadata |-> <<>>]
    /\ run = None
    /\ twin_out = [ret |-> OkUnit, log |-> <<>>, list |-> <<>>, testcase |-> [exec_time |-> None, metadata |-> <<>>]]

----------------------------------------------------------------------------
(* Specification Spec: one feedback tree and the calls of the Feedback trait *)

NoOutput == [ret |-> OkUnit, log |-> <<>>, list |-> <<>>, testcase |-> Testcase_new]

FeedbackInit ==
    /\ fb \in Trees
    /\ twin = IF IsNotNot(fb) THEN fb.first.first ELSE UnitFeedback
    /\ op = "new"
    /\ arg = <<>>
    /\ ret = OkUnit
    /\ log = <<>>
    /\ list = <<>>
    /\ testcase = Testcase_new
    /\ run = None
    /\ twin_out = NoOutput

Init == FeedbackInit /\ StageFixed

\* Feedback::init_state, called after the State is created
InitState ==
    \E u \in [StubsOf(fb) -> UnitResults] :
        LET env == [unit |-> u]
            r == init_state(fb, env, <<>>)
            t == init_state(twin, env, <<>>)
        IN  /\ op' = "init_state"
            /\ arg' = env
            /\ ret' = r.ret
            /\ log' = r.log
            /\ list' = <<>>
            /\ testcase' = Testcase_new
            /\ twin_out' = [NoOutput EXCEPT !.ret = t.ret, !.log = t.log]
            /\ UNCHANGED <<fb, twin, run, stvars, evvars>>

\* Feedback::is_interesting after a run that ended with exit kind ek
IsInteresting ==
    \E ek \in ExitKindsFor(fb), v \in [StubsOf(fb) -> Verdicts] :
        LET env == [exit_kind |-> ek, verdict |-> v]
            r == is_interesting(fb, env, <<>>)
            t == is_interesting(twin, env, <<>>)
        IN  /\ fb' = r.self
            /\ twin' = t.self
            /\ op' = "is_interesting"
            /\ arg' = env
            /\ ret' = r.ret
            /\ log' = r.log
            /\ list' = <<>>
            /\ testcase' = Testcase_new
            /\ run' = Some([env |-> env, ret |-> r.ret, log |-> r.log])
            /\ twin_out' = [NoOutput EXCEPT !.ret = t.ret, !.log = t.log]
            /\ UNCHANGED <<stvars, evvars>>

\* Feedback::last_result
LastResult ==
    /\ op' = "last_result"
    /\ arg' = <<>>
    /\ ret' = last_result(fb)
    /\ log' = <<>>
    /\ list' = <<>>
    /\ testcase' = Testcase_new
    /\ twin_out' = [NoOutput EXCEPT !.ret = last_result(twin)]
    /\ UNCHANGED <<fb, twin, run, stvars, evvars>>

\* Feedback::append_hit_feedbacks on a list that is empty or already has an entry
AppendHitFeedbacks ==
    \E l \in {<<>>, <<"earlier">>} :
        LET r == append_hit_feedbacks(fb, l)
            t == append_hit_feedbacks(twin, l)
        IN  /\ op' = "append_hit_feedbacks"
            /\ arg' = [list |-> l]
            /\ ret' = r.ret
            /\ log' = <<>>
            /\ list' = r.list
            /\ testcase' = Testcase_new
            /\ twin_out' = [NoOutput EXCEPT !.ret = t.ret, !.list = t.list]
            /\ UNCHANGED <<fb, twin, run, stvars, evvars>>

\* Feedback::append_metadata on a new testcase
AppendMetadata ==
    \E u \in [StubsOf(fb) -> UnitResults], rt \in RuntimesFor(fb) :
        LET env == [unit |-> u, last_runtime |-> rt]
            r == append_metadata(fb, env, <<>>, Testcase_new)
            t == append_metadata(twin, env, <<>>, Testcase_new)
        IN  /\ op' = "append_metadata"
            /\ arg' = env
            /\ ret' = r.ret
            /\ log' = r.log
            /\ list' = <<>>
            /\ testcase' = r.testcase
            /\ twin_out' = [NoOutput EXCEPT !.ret = t.ret, !.log = t.log, !.testcase = t.testcase]
            /\ UNCHANGED <<fb, twin, run, stvars, evvars>>

\* Feedback::discard_metadata
DiscardMetadata ==
    \E u \in [StubsOf(fb) -> UnitResults] :
        LET env == [unit |-> u]
            r == discard_metadata(fb, env, <<>>)
            t == discard_metadata(twin, env, <<>>)
        IN  /\ op' = "discard_metadata"
            /\ arg' = env
            /\ ret' = r.ret
            /\ log' = r.log
            /\ list' = <<>>
            /\ testcase' = Testcase_new
            /\ twin_out' = [NoOutput EXCEPT !.ret = t.ret, !.log = t.log]
            /\ UNCHANGED <<fb, twin, run, stvars, evvars>>

Next ==
    \/ InitState
    \/ IsInteresting
    \/ LastResult
    \/ AppendHitFeedbacks
    \/ AppendMetadata
    \/ DiscardMetadata

Spec == Init /\ [][Next]_vars

----------------------------------------------------------------------------
(* Specification SpecChain: a chain of user-supplied feedbacks built by one *)
(* of the four macros, evaluated run after run                               *)

ChainInit ==
    /\ fb \in Chains
    /\ twin = UnitFeedback
    /\ op = "new"
    /\ arg = <<>>
    /\ ret = OkUnit
    /\ log = <<>>
    /\ list = <<>>
    /\ testcase = Testcase_new
    /\ run = None
    /\ twin_out = NoOutput
    /\ StageFixed

NextChain == IsInteresting

SpecChain == ChainInit /\ [][NextChain]_vars

----------------------------------------------------------------------------
(* Specification SpecTree: trees of combinators over the leaves that read    *)
(* nothing but the exit kind, each eager-rooted tree next to the same tree   *)
(* under the fast logic, evaluated run after run and asked for their hits    *)

\* The leaves whose verdict is a function of the exit kind alone.
TreeLeaves ==
    { CrashFeedback_new, TimeoutFeedback_new, DiffExitKindFeedback_new,
      ConstFeedback_new(TRUE), ConstFeedback_new(FALSE) }

\* Every pair of such leaves under each of the four combinators.
TreePairs ==
    { CombinedFeedback_new(x, y, FL) : x \in TreeLeaves, y \in TreeLeaves, FL \in Logics }

\* The subtrees placed under a second combinator.
InnerPairs ==
    { CombinedFeedback_new(x, y, FL) :
        x \in {CrashFeedback_new, TimeoutFeedback_new},
        y \in {CrashFeedback_new, TimeoutFeedback_new}, FL \in Logics }
    \cup {NotFeedback_new(CrashFeedback_new)}

\* A subtree and a leaf, in either order, under each of the four combinators.
NestedTrees ==
    UNION { { CombinedFeedback_new(p, x, FL), CombinedFeedback_new(x, p, FL) } :
            p \in InnerPairs,
            x \in {CrashFeedback_new, DiffExitKindFeedback_new,
                   ConstFeedback_new(TRUE), ConstFeedback_new(FALSE)},
            FL \in Logics }

TreeShapes == TreePairs \cup NestedTrees \cup { NotFeedback_new(p) : p \in InnerPairs }

\* The fast logic of the same connective.
FastOf(FL) ==
    CASE FL \in OrLogics -> "LogicFastOr"
      [] FL \in AndLogics -> "LogicFastAnd"

IsEager(f) == f.kind = "CombinedFeedback" /\ f.logic \in {"LogicEagerOr", "LogicEagerAnd"}

\* FastOrFeedback / FastAndFeedback over the children of an eager combinator.
FastVariant(f) == CombinedFeedback_new(f.first, f.second, FastOf(f.logic))

TreeInit ==
    /\ fb \in TreeShapes
    /\ twin = IF IsEager(fb) THEN FastVariant(fb) ELSE UnitFeedback
    /\ op = "new"
    /\ arg = <<>>
    /\ ret = OkUnit
    /\ log = <<>>
    /\ list = <<>>
    /\ testcase = Testcase_new
    /\ run = None
    /\ twin_out = NoOutput
    /\ StageFixed

NextTree ==
    \/ IsInteresting
    \/ LastResult
    \/ AppendHitFeedbacks

SpecTree == TreeInit /\ [][NextTree]_vars

----------------------------------------------------------------------------
(* Specification SpecStage: the default-named tuneable stage, configured by  *)
(* its setters and invoked by the stage pipeline                             *)

\* ExecutionCountRestartHelper::should_restart: keeps the snapshot of an
\* interrupted run, and takes one of the execution counter otherwise.
should_restart(prog, execs) == IF prog = None THEN Some(execs) ELSE prog

\* ExecutionCountRestartHelper::execs_since_progress_start
execs_since_progress_start(prog, execs) ==
    IF prog = None
    THEN Err("illegal_state: no progress snapshot")
    ELSE Ok(execs - prog[1])

\* TuneableMutationalStage::iterations: 1 + rand.below(DEFAULT_MUTATIONAL_MAX_ITERATIONS)
iterations == 1..DEFAULT_MUTATIONAL_MAX_ITERATIONS

\* Mutant: a configured cap of 0 counts as 1.
loop_limit_at_least_one(fuzz_time, iters, random_iters, execs_since) ==
    IF iters # None THEN Some(IF iters[1] = 0 THEN 1 ELSE iters[1])
    ELSE IF fuzz_time # None THEN None
    ELSE Some(saturating_sub(random_iters, execs_since))

\* Mutant: a loop without an iteration cap runs once.
loop_limit_single(fuzz_time, iters, random_iters, execs_since) ==
    IF iters # None THEN Some(iters[1])
    ELSE IF fuzz_time # None THEN Some(1)
    ELSE Some(saturating_sub(random_iters, execs_since))

\* Mutant: the iteration cap is dropped when a fuzz time is set.
loop_limit_time_only(fuzz_time, iters, random_iters, execs_since) ==
    IF fuzz_time # None THEN None
    ELSE IF iters # None THEN Some(iters[1])
    ELSE Some(saturating_sub(random_iters, execs_since))

\* match (fuzz_time, iters): the upper end of the loop's range, None for 1..
loop_limit(fuzz_time, iters, random_iters, execs_since) ==
    IF iters # None THEN Some(iters[1])
    ELSE IF fuzz_time # None THEN None
    ELSE Some(saturating_sub(random_iters, execs_since))

\* Mutant: the loop runs over 0..=iters.
loop_range_exhausted_inclusive(st) == st.limit # None /\ st.i > st.limit[1]

\* for _ in 1..=iters: no element is left
loop_range_exhausted(st) == st.limit # None /\ st.i >= st.limit[1]

\* Mutant: the time is up only when more than fuzz_time has passed.
loop_time_is_up_strict(st, now) == st.fuzz_time # None /\ now - st.start_time > st.fuzz_time[1]

\* Mutant: the loop leaves one tick after the budget expired.
loop_time_is_up_late(st, now) == st.fuzz_time # None /\ now - st.start_time >= st.fuzz_time[1] + 1

\* Mutant: the elapsed time is not compared.
loop_time_is_up_never(st, now) == FALSE

\* Mutant: the fuzz time is read from the metadata again at every loop head.
loop_time_is_up_reread(st, now) ==
    LET fuzz_time == named_metadata[st.name].fuzz_time
    IN  fuzz_time # None /\ now - st.start_time >= fuzz_time[1]

\* if current_time() - start_time >= fuzz_time { break; }
loop_time_is_up(st, now) == st.fuzz_time # None /\ now - st.start_time >= st.fuzz_time[1]

StageInit ==
    /\ CorporaInit
    /\ named_metadata = transforming(<<>>, STD_TUNEABLE_MUTATIONAL_STAGE_NAME)
    /\ progress = None
    /\ stage = StageIdle
    /\ clock = 0
    /\ executions = 0
    /\ trace = <<>>
    /\ stage_ret = None
    /\ invocations = 0

InitStage == StageInit /\ FeedbackFixed

\* The model configures the stage between invocations.
Configurable == stage.pc = "idle"

\* set_iters_by_name / set_iters_std / TuneableMutationalStage::set_iters
SetIters ==
    \E n \in StageNames, iters \in 0..MaxIters :
        /\ Configurable
        /\ named_metadata' = set_iters_by_name(named_metadata, iters, n).map
        /\ stage' = [stage EXCEPT !.last_cfg = Some(<<"set_iters", iters>>)]
        /\ UNCHANGED <<progress, clock, executions, trace, stage_ret, invocations, fbvars, evvars>>

\* set_seed_fuzz_time_by_name / set_seed_fuzz_time_std / TuneableMutationalStage::set_seed_fuzz_time
SetSeedFuzzTime ==
    \E n \in StageNames, fuzz_time \in 0..MaxFuzzTime :
        /\ Configurable
        /\ named_metadata' = set_seed_fuzz_time_by_name(named_metadata, fuzz_time, n).map
        /\ stage' = [stage EXCEPT !.last_cfg = Some(<<"set_seed_fuzz_time", fuzz_time>>)]
        /\ UNCHANGED <<progress, clock, executions, trace, stage_ret, invocations, fbvars, evvars>>

\* reset_by_name / reset_std / TuneableMutationalStage::reset
Reset ==
    \E n \in StageNames :
        /\ Configurable
        /\ named_metadata' = reset_by_name(named_metadata, n).map
        /\ stage' = [stage EXCEPT !.last_cfg = Some(<<"reset">>)]
        /\ UNCHANGED <<progress, clock, executions, trace, stage_ret, invocations, fbvars, evvars>>

\* Time passes: at a loop head or while an iteration is in flight.
Tick ==
    /\ stage.pc \in {"head", "mutate"}
    /\ clock < MaxClock
    /\ clock' = clock + 1
    /\ UNCHANGED <<named_metadata, progress, stage, executions, trace, stage_ret, invocations, fbvars, evvars>>

\* Stage::should_restart, which the pipeline calls before perform. The stage
\* reads the clock only as a difference from start_time, so the model counts
\* the time from this call on.
ShouldRestart ==
    /\ stage.pc \in {"idle", "returned"}
    /\ invocations < MaxInvocations
    /\ invocations' = invocations + 1
    /\ progress' = should_restart(progress, executions)
    /\ stage' = [StageIdle EXCEPT !.pc = "ready",
                                  !.first_budget = IF progress = None THEN None
                                                   ELSE stage.first_budget,
                                  !.after_clear = (stage.pc = "idle" /\ stage.after_clear)]
    /\ stage_ret' = None
    /\ trace' = <<>>
    /\ clock' = 0
    /\ UNCHANGED <<named_metadata, executions, fbvars, evvars>>

\* perform_mutational returns r
Return(r) ==
    /\ stage' = [stage EXCEPT !.pc = "returned"]
    /\ stage_ret' = Some(r)

\* let mut testcase = state.current_testcase_mut()?
current_testcase_mut == "held"

\* Mutant: the borrow is kept while the loop runs.
drop_kept(borrow) == borrow

\* drop(testcase), and the end of testcase's scope on the early return
drop(borrow) == "released"

\* Mutant: a refusal is passed on as an error.
try_transform_from_refused_err == Err("transform failure")

\* let Ok(input) = I::try_transform_from(..) else { return Ok(()); }
try_transform_from_refused == OkUnit

\* Stage::perform -> perform_mutational, up to the first loop head (lines 183-198)
PerformMutational ==
    /\ stage.pc = "ready"
    /\ LET fuzz_time == get_seed_fuzz_time_by_name(named_metadata, stage.name)
           iters == get_iters_by_name(named_metadata, stage.name)
       IN  IF ~fuzz_time.ok THEN Return(fuzz_time)
           ELSE IF ~iters.ok THEN Return(iters)
           ELSE \E transformed \in BOOLEAN :
                  IF ~transformed
                  THEN /\ stage' = [stage EXCEPT !.pc = "returned", !.refused = TRUE,
                                                 !.fuzz_time = fuzz_time.val,
                                                 !.iters = iters.val,
                                                 !.entry = executions,
                                                 !.borrow = drop(current_testcase_mut)]
                       /\ stage_ret' = Some(try_transform_from_refused)
                  ELSE LET random == fuzz_time.val = None /\ iters.val = None
                           since == execs_since_progress_start(progress, executions)
                       IN  \E r \in (IF random THEN iterations ELSE {0}) :
                             IF random /\ ~since.ok THEN Return(since)
                             ELSE /\ stage' =
                                       [stage EXCEPT
                                          !.pc = "head",
                                          !.fuzz_time = fuzz_time.val,
                                          !.iters = iters.val,
                                          !.limit = loop_limit(fuzz_time.val, iters.val, r,
                                                               IF random THEN since.val ELSE 0),
                                          !.start_time = IF fuzz_time.val # None THEN clock ELSE 0,
                                          !.transformed = TRUE,
                                          !.input = Some("seed"),
                                          !.budget = IF random THEN Some(r) ELSE None,
                                          !.since = IF random THEN Some(since.val) ELSE None,
                                          !.first_budget = IF random /\ @ = None THEN Some(r) ELSE @,
                                          !.entry = executions,
                                          !.borrow = drop(current_testcase_mut)]
                                  /\ UNCHANGED stage_ret
    /\ UNCHANGED <<named_metadata, progress, clock, executions, trace, invocations, fbvars, evvars>>

\* The head of the loop: leave it, or start the next perform_mutation. The
\* range is asked first; the clock is read only when the range has an element.
LoopHead ==
    /\ stage.pc = "head"
    /\ LET sample == IF stage.fuzz_time # None /\ ~loop_range_exhausted(stage)
                     THEN Some(clock - stage.start_time) ELSE stage.elapsed
       IN  IF loop_range_exhausted(stage) \/ loop_time_is_up(stage, clock)
           THEN /\ stage' = [stage EXCEPT !.pc = "returned", !.elapsed = sample]
                /\ stage_ret' = Some(OkUnit)
                /\ UNCHANGED trace
           ELSE /\ stage.i < MaxLoop
                /\ stage' = [stage EXCEPT !.pc = "mutate", !.i = @ + 1, !.corpus_id = None,
                                          !.elapsed = sample,
                                          !.clone = stage.input, !.mutated = None,
                                          !.iter_start =
                                             Some([executions |-> executions,
                                                   since |-> execs_since_progress_start(progress, executions),
                                                   corpus |-> stage.corpus,
                                                   solutions |-> stage.solutions])]
                /\ trace' = <<>>
                /\ UNCHANGED stage_ret
    /\ UNCHANGED <<named_metadata, progress, clock, executions, invocations, fbvars, evvars>>

\* Mutant: an error of the last post_exec call is dropped and the loop goes on.
propagate_dropped(call) == IF call = "post.post_exec" THEN "head" ELSE "returned"

\* The `?` after a call of perform_mutation, and the `?` after perform_mutation
\* in each of the four loops: an Err leaves the invocation.
propagate(call) == "returned"

\* The call of perform_mutation named call returned the error e.
Fail(call, e) ==
    /\ stage' = [stage EXCEPT !.pc = propagate(call), !.failed = Some(call),
                              !.mutations = IF call = "mutate" THEN @ + 1 ELSE @,
                              !.evals = IF call = "evaluate_input" THEN @ + 1 ELSE @]
    /\ stage_ret' = Some(e)

\* Mutant: Skipped is not looked at.
after_mutate_always(mutated) == "transform_into"

\* Mutant: a skipped input is still evaluated.
after_mutate_evaluate(mutated) == IF mutated = "Skipped" THEN "evaluate" ELSE "transform_into"

\* if mutated == MutationResult::Skipped { return Ok(()); }
after_mutate(mutated) == IF mutated = "Skipped" THEN "head" ELSE "transform_into"

\* perform_mutation: self.mutator_mut().mutate(state, &mut input)?
\* The mutator works on the clone made at line 460.
MutatorMutate ==
    /\ stage.pc = "mutate"
    /\ trace' = Append(trace, <<"mutate", stage.clone[1]>>)
    /\ \E mutated \in {"Mutated", "Skipped", "Err"} :
         CASE mutated = "Err" -> Fail("mutate", Err("mutator failure"))
           [] mutated = "Skipped" ->
                /\ stage' = [stage EXCEPT !.pc = after_mutate(mutated), !.mutations = @ + 1,
                                          !.mutated = Some(mutated), !.skipped = @ + 1]
                /\ UNCHANGED stage_ret
           [] mutated = "Mutated" ->
                /\ stage' = [stage EXCEPT !.pc = after_mutate(mutated), !.mutations = @ + 1,
                                          !.mutated = Some(mutated),
                                          !.clone = Some("mutated")]
                /\ UNCHANGED stage_ret
    /\ UNCHANGED <<named_metadata, progress, executions, invocations, fbvars, evvars>>

\* A mutator that takes no time of its own (time passes by Tick).
Mutate == MutatorMutate /\ UNCHANGED clock

\* perform_mutation: input.try_transform_into(state)?
TryTransformInto ==
    /\ stage.pc = "transform_into"
    /\ trace' = Append(trace, <<"try_transform_into">>)
    /\ \E ok \in BOOLEAN :
         IF ok
         THEN stage' = [stage EXCEPT !.pc = "evaluate"] /\ UNCHANGED stage_ret
         ELSE Fail("try_transform_into", Err("transform failure"))
    /\ UNCHANGED <<named_metadata, progress, clock, executions, invocations, fbvars, evvars>>

\* perform_mutation: fuzzer.evaluate_input(state, executor, manager, untransformed)?
\* The executor runs the input once; the input is then dropped, added to the
\* main corpus (the call returns its corpus id) or added to the solutions.
EvaluateInput ==
    /\ stage.pc = "evaluate"
    /\ trace' = Append(trace, <<"evaluate_input">>)
    /\ executions' = executions + 1
    /\ \E res \in {"None", "Corpus", "Solution", "Err"} :
         IF res # "Err"
         THEN /\ stage' = [stage EXCEPT
                             !.pc = "mutator_post_exec", !.evals = @ + 1,
                             !.corpus_id = IF res = "Corpus" THEN Some(executions') ELSE None,
                             !.corpus = @ \/ res = "Corpus",
                             !.solutions = @ \/ res = "Solution"]
              /\ UNCHANGED stage_ret
         ELSE Fail("evaluate_input", Err("executor failure"))
    /\ UNCHANGED <<named_metadata, progress, clock, invocations, fbvars, evvars>>

\* The target takes the process down while the executor runs it: the State is
\* persisted with its execution counter and the progress snapshot, and the
\* restarted process builds the stage again.
Crash ==
    /\ stage.pc = "evaluate"
    /\ executions' = executions + 1
    /\ stage' = [StageIdle EXCEPT !.first_budget = stage.first_budget]
    /\ named_metadata' = transforming(named_metadata, stage.name)
    /\ stage_ret' = None
    /\ trace' = <<>>
    /\ UNCHANGED <<progress, clock, invocations, fbvars, evvars>>

\* Mutant: the post_exec calls get no corpus id.
post_exec_corpus_id_none(st) == None

\* The corpus id that perform_mutation hands to the two post_exec calls.
post_exec_corpus_id(st) == st.corpus_id

\* perform_mutation: self.mutator_mut().post_exec(state, corpus_id)?
MutatorPostExec ==
    /\ stage.pc = "mutator_post_exec"
    /\ trace' = Append(trace, <<"mutator.post_exec", post_exec_corpus_id(stage)>>)
    /\ \E ok \in BOOLEAN :
         IF ok
         THEN stage' = [stage EXCEPT !.pc = "post_post_exec"] /\ UNCHANGED stage_ret
         ELSE Fail("mutator.post_exec", Err("mutator failure"))
    /\ UNCHANGED <<named_metadata, progress, clock, executions, invocations, fbvars, evvars>>

\* perform_mutation: post.post_exec(state, corpus_id)?
PostPostExec ==
    /\ stage.pc = "post_post_exec"
    /\ trace' = Append(trace, <<"post.post_exec", post_exec_corpus_id(stage)>>)
    /\ \E ok \in BOOLEAN :
         IF ok
         THEN stage' = [stage EXCEPT !.pc = "head"] /\ UNCHANGED stage_ret
         ELSE Fail("post.post_exec", Err("post_exec failure"))
    /\ UNCHANGED <<named_metadata, progress, clock, executions, invocations, fbvars, evvars>>

\* Stage::clear_progress, which the pipeline calls after perform succeeded
ClearProgress ==
    /\ stage.pc = "returned"
    /\ stage_ret = Some(OkUnit)
    /\ progress' = None
    /\ stage' = [StageIdle EXCEPT !.after_clear = TRUE]
    /\ UNCHANGED <<named_metadata, clock, executions, trace, stage_ret, invocations, fbvars, evvars>>

NextStage ==
    \/ SetIters
    \/ SetSeedFuzzTime
    \/ Reset
    \/ Tick
    \/ ShouldRestart
    \/ PerformMutational
    \/ LoopHead
    \/ Mutate
    \/ TryTransformInto
    \/ EvaluateInput
    \/ Crash
    \/ MutatorPostExec
    \/ PostPostExec
    \/ ClearProgress

SpecStage == InitStage /\ [][NextStage]_vars

----------------------------------------------------------------------------
(* Specification SpecSleep: the stage with a fuzz time of 50ms and a mutator *)
(* that sleeps 20ms in every call                                            *)

\* A duration of n milliseconds in ticks of the clock, which are 5ms here.
Ms(n) == n \div 5

\* Bound: the ticks an iteration takes on top of the mutator's sleep.
MaxOverhead == 1

SleepInit ==
    /\ CorporaInit
    /\ named_metadata =
         set_seed_fuzz_time_by_name(transforming(<<>>, STD_TUNEABLE_MUTATIONAL_STAGE_NAME),
                                    Ms(50), STD_TUNEABLE_MUTATIONAL_STAGE_NAME).map
    /\ progress = None
    /\ stage = StageIdle
    /\ clock = 0
    /\ executions = 0
    /\ trace = <<>>
    /\ stage_ret = None
    /\ invocations = 0
    /\ FeedbackFixed

\* mutate of a mutator that sleeps 20ms; the rest of the iteration takes up to
\* MaxOverhead ticks.
SleepingMutate ==
    /\ MutatorMutate
    /\ \E overhead \in 0..MaxOverhead : clock' = clock + Ms(20) + overhead

NextSleep ==
    \/ ShouldRestart
    \/ PerformMutational
    \/ LoopHead
    \/ SleepingMutate
    \/ TryTransformInto
    \/ EvaluateInput
    \/ MutatorPostExec
    \/ PostPostExec
    \/ ClearProgress

SpecSleep == SleepInit /\ [][NextSleep]_vars

----------------------------------------------------------------------------
(* Specification SpecConfig: the by-name functions called with any name     *)
(* between invocations, and by a mutator while the loop runs, on a State     *)
(* that may hold no metadata under the stage's name.  No time passes here.   *)

\* The names the by-name functions are called with: the stage's name and one
\* under which no stage was constructed.
ConfigNames == StageNames \cup {"OtherStage"}

\* The stage is run with the State it was constructed with, or with a State
\* that holds no TuneableMutationalStageMetadata (the stage was constructed
\* with another one).
ConfigInit ==
    /\ CorporaInit
    /\ named_metadata \in {transforming(<<>>, STD_TUNEABLE_MUTATIONAL_STAGE_NAME), <<>>}
    /\ progress = None
    /\ stage = StageIdle
    /\ clock = 0
    /\ executions = 0
    /\ trace = <<>>
    /\ stage_ret = None
    /\ invocations = 0
    /\ FeedbackFixed

\* The by-name functions take a State and a name: the fuzzer calls them
\* between invocations.
Callable == stage.pc = "idle"

\* set_iters_by_name
CallSetIters ==
    \E n \in ConfigNames, iters \in 0..MaxIters :
        LET r == set_iters_by_name(named_metadata, iters, n)
        IN  /\ Callable
            /\ named_metadata' = r.map
            /\ stage' = [stage EXCEPT !.cfg_call = Some(<<"set_iters", n, r.ret>>)]
            /\ UNCHANGED <<progress, clock, executions, trace, stage_ret, invocations, fbvars, evvars>>

\* set_seed_fuzz_time_by_name
CallSetSeedFuzzTime ==
    \E n \in ConfigNames, fuzz_time \in 0..MaxFuzzTime :
        LET r == set_seed_fuzz_time_by_name(named_metadata, fuzz_time, n)
        IN  /\ Callable
            /\ named_metadata' = r.map
            /\ stage' = [stage EXCEPT !.cfg_call = Some(<<"set_seed_fuzz_time", n, r.ret>>)]
            /\ UNCHANGED <<progress, clock, executions, trace, stage_ret, invocations, fbvars, evvars>>

\* reset_by_name
CallReset ==
    \E n \in ConfigNames :
        LET r == reset_by_name(named_metadata, n)
        IN  /\ Callable
            /\ named_metadata' = r.map
            /\ stage' = [stage EXCEPT !.cfg_call = Some(<<"reset", n, r.ret>>)]
            /\ UNCHANGED <<progress, clock, executions, trace, stage_ret, invocations, fbvars, evvars>>

\* A mutator that calls set_iters, set_seed_fuzz_time or reset on the stage's
\* name from its mutate, before it mutates. The model's mutator does so while
\* the metadata is still as the invocation read it.
MutatorReconfigures ==
    /\ stage.pc = "mutate"
    /\ named_metadata[stage.name] = [iters |-> stage.iters, fuzz_time |-> stage.fuzz_time]
    /\ \/ \E iters \in 0..MaxIters :
            named_metadata' = set_iters_by_name(named_metadata, iters, stage.name).map
       \/ \E fuzz_time \in 0..MaxFuzzTime :
            named_metadata' = set_seed_fuzz_time_by_name(named_metadata, fuzz_time, stage.name).map
       \/ named_metadata' = reset_by_name(named_metadata, stage.name).map
    /\ named_metadata' # named_metadata
    /\ UNCHANGED <<progress, stage, clock, executions, trace, stage_ret, invocations, fbvars, evvars>>

NextConfig ==
    \/ CallSetIters
    \/ CallSetSeedFuzzTime
    \/ CallReset
    \/ MutatorReconfigures
    \/ ShouldRestart
    \/ PerformMutational
    \/ LoopHead
    \/ Mutate
    \/ TryTransformInto
    \/ EvaluateInput
    \/ MutatorPostExec
    \/ PostPostExec
    \/ ClearProgress

SpecConfig == ConfigInit /\ [][NextConfig]_vars

----------------------------------------------------------------------------
(* Specification SpecNames: stages constructed under two names on one State, *)
(* and the by-name functions called with either name                         *)

NamesInit ==
    /\ CorporaInit
    /\ named_metadata = <<>>
    /\ progress = None
    /\ stage = StageIdle
    /\ clock = 0
    /\ executions = 0
    /\ trace = <<>>
    /\ stage_ret = None
    /\ invocations = 0
    /\ FeedbackFixed

\* TuneableMutationalStage::new (the default name) and ::with_name
Construct ==
    \E n \in ConfigNames :
        /\ Callable
        /\ named_metadata' = transforming(named_metadata, n)
        /\ stage' = [stage EXCEPT !.cfg_call = Some(<<"with_name", n, OkUnit>>)]
        /\ UNCHANGED <<progress, clock, executions, trace, stage_ret, invocations, fbvars, evvars>>

NextNames ==
    \/ Construct
    \/ CallSetIters
    \/ CallSetSeedFuzzTime
    \/ CallReset

SpecNames == NamesInit /\ [][NextNames]_vars

----------------------------------------------------------------------------
(* Specification SpecTimeOnly: the stage with a fuzz time and no iteration  *)
(* cap, under a clock that advances and calls that come back                 *)

\* set_seed_fuzz_time was called on the new stage and set_iters was not.
TimeOnlyInit ==
    /\ CorporaInit
    /\ \E fuzz_time \in 0..MaxFuzzTime :
         named_metadata =
           set_seed_fuzz_time_by_name(transforming(<<>>, STD_TUNEABLE_MUTATIONAL_STAGE_NAME),
                                      fuzz_time, STD_TUNEABLE_MUTATIONAL_STAGE_NAME).map
    /\ progress = None
    /\ stage = StageIdle
    /\ clock = 0
    /\ executions = 0
    /\ trace = <<>>
    /\ stage_ret = None
    /\ invocations = 0
    /\ FeedbackFixed

NextTimeOnly ==
    \/ Tick
    \/ ShouldRestart
    \/ PerformMutational
    \/ LoopHead
    \/ Mutate
    \/ TryTransformInto
    \/ EvaluateInput
    \/ MutatorPostExec
    \/ PostPostExec
    \/ ClearProgress

\* The stage runs on one thread and every call it makes comes back, so each
\* step of an invocation that can be taken is taken; and the monotonic clock
\* goes on.
SpecTimeOnly ==
    /\ TimeOnlyInit
    /\ [][NextTimeOnly]_vars
    /\ WF_vars(Tick)
    /\ WF_vars(PerformMutational)
    /\ WF_vars(LoopHead)
    /\ WF_vars(Mutate)
    /\ WF_vars(TryTransformInto)
    /\ WF_vars(EvaluateInput)
    /\ WF_vars(MutatorPostExec)
    /\ WF_vars(PostPostExec)

----------------------------------------------------------------------------
(* Specification SpecEvaluate: the fuzzer evaluates inputs one after the     *)
(* other with an interestingness feedback (fb) and an objective (twin)       *)

\* How many inputs the model evaluates.
MaxEvaluations == 2

\* The fuzzer's feedback is one user-supplied feedback or a pair of them under
\* a combinator; its objective is one user-supplied feedback or two under
\* feedback_or!.
EvaluateInit ==
    /\ fb \in {StubFeedback("A")} \cup StubPairs
    /\ twin \in { StubFeedback("C"), feedback_or(<<StubFeedback("C"), StubFeedback("D")>>) }
    /\ op = "new"
    /\ arg = <<>>
    /\ ret = OkUnit
    /\ log = <<>>
    /\ list = <<>>
    /\ testcase = Testcase_new
    /\ run = None
    /\ twin_out = NoOutput
    /\ StageFixed

\* The verdicts of one input: the feedback's is_interesting runs, then the
\* objective's. An error ends the evaluation.
evaluate_verdicts(feedback, objective, env) ==
    LET i == is_interesting(feedback, env, <<>>)
        o == is_interesting(objective, env, i.log)
    IN  IF ~i.ret.ok
        THEN [ret |-> i.ret, feedback |-> i.self, objective |-> objective, log |-> i.log,
              interesting |-> None, solution |-> None]
        ELSE [ret |-> IF o.ret.ok THEN OkUnit ELSE o.ret,
              feedback |-> i.self, objective |-> o.self, log |-> o.log,
              interesting |-> Some(i.ret.val),
              solution |-> IF o.ret.ok THEN Some(o.ret.val) ELSE None]

\* The metadata walks that follow the classification res of an input:
\*   objective true:    append_metadata on the objective,
\*                      discard_metadata on the feedback
\*   interesting true:  append_metadata on the feedback
\*   neither:           discard_metadata on both
evaluate_walks(res, e, env, tc) ==
    CASE res = "Err" -> [log |-> e.log, testcase |-> tc]
      [] res = "Solution" ->
           LET a == append_metadata(e.objective, env, e.log, tc)
           IN  [log |-> discard_metadata(e.feedback, env, a.log).log,
                testcase |-> a.testcase]
      [] res = "Corpus" ->
           LET a == append_metadata(e.feedback, env, e.log, tc)
           IN  [log |-> a.log, testcase |-> a.testcase]
      [] res = "None" ->
           LET d == discard_metadata(e.feedback, env, e.log)
           IN  [log |-> discard_metadata(e.objective, env, d.log).log,
                testcase |-> tc]

\* evaluate_input on the n-th input: classify it (an objective hit goes before
\* an interesting run), add it to the solutions or to the main corpus, and walk
\* the metadata.
EvaluateExecution ==
    /\ (IF run = None THEN 0 ELSE run[1].n) < MaxEvaluations
    /\ \E v \in [StubsOf(fb) \cup StubsOf(twin) -> Verdicts] :
       \E env \in { [exit_kind |-> [tag |-> "Ok"], verdict |-> v, last_runtime |-> None,
                     unit |-> [x \in StubsOf(fb) \cup StubsOf(twin) |-> OkUnit]] } :
       \E e \in { evaluate_verdicts(fb, twin, env) } :
       \E res \in { IF ~e.ret.ok THEN "Err"
                     ELSE IF e.solution[1] THEN "Solution"
                     ELSE IF e.interesting[1] THEN "Corpus"
                     ELSE "None" } :
       \E walked \in { evaluate_walks(res, e, env, Testcase_new) } :
         LET n == IF run = None THEN 1 ELSE run[1].n + 1
         IN  /\ fb' = e.feedback
             /\ twin' = e.objective
             /\ op' = "evaluate_input"
             /\ arg' = env
             /\ ret' = IF e.ret.ok THEN Ok(res) ELSE e.ret
             /\ log' = walked.log
             /\ list' = <<>>
             /\ testcase' = walked.testcase
             /\ run' = Some([n |-> n, interesting |-> e.interesting, solution |-> e.solution,
                             corpus |-> corpus, solutions |-> solutions])
             /\ twin_out' = NoOutput
             /\ corpus' = IF res = "Corpus" THEN Append(corpus, n) ELSE corpus
             /\ solutions' = IF res = "Solution" THEN Append(solutions, n) ELSE solutions
             /\ UNCHANGED stvars

NextEvaluate == EvaluateExecution

SpecEvaluate == EvaluateInit /\ [][NextEvaluate]_vars

----------------------------------------------------------------------------
(* Specification SpecBaby: the baby_fuzzer_custom_input example, whose       *)
(* feedback is a MaxMapFeedback (fb, user-supplied here) and whose objective *)
(* (twin) is a CrashFeedback, evaluating generated and mutated inputs        *)

\* CustomInput values: byte_array, optional_byte_array and boolean, the bytes
\* b'a' = 97 and b'b' = 98 among them.
CustomInputs ==
    [ byte_array : {<<>>, <<97>>, <<98>>},
      optional_byte_array : {None, Some(<<98>>), Some(<<97>>)},
      boolean : BOOLEAN ]

\* Mutant: the harness does not look at input.boolean.
harness_any_boolean(input, target) ==
    IF input.byte_array = <<97>> /\ input.optional_byte_array = Some(<<98>>)
    THEN IF target \in {"unix", "windows"} THEN [tag |-> "Crash"] ELSE [tag |-> "Ok"]
    ELSE [tag |-> "Ok"]

\* The harness closure on a build for the given target family: inside the
\* three nested ifs it panics (cfg(unix)) or writes to address 0
\* (cfg(windows)), which the in-process executor reports as ExitKind::Crash;
\* on every other path, and on a build for neither family, it returns
\* ExitKind::Ok.
harness(input, target) ==
    IF input.byte_array = <<97>>
    THEN IF input.optional_byte_array = Some(<<98>>)
         THEN IF input.boolean
              THEN IF target \in {"unix", "windows"}
                   THEN [tag |-> "Crash"]
                   ELSE [tag |-> "Ok"]
              ELSE [tag |-> "Ok"]
         ELSE [tag |-> "Ok"]
    ELSE [tag |-> "Ok"]

\* The target families the in-process executor of the example is built for.
Targets == {"unix", "windows"}

BabyInit ==
    /\ fb = StubFeedback("A")
    /\ twin = CrashFeedback_new
    /\ op = "new"
    /\ arg = <<>>
    /\ ret = OkUnit
    /\ log = <<>>
    /\ list = <<>>
    /\ testcase = Testcase_new
    /\ run = None
    /\ twin_out = NoOutput
    /\ StageFixed

\* One input, from the generator or from a mutation, is run by the executor
\* and evaluated: the harness gives the exit kind, and the input itself is
\* what goes to the solutions or to the main corpus.
BabyExecution ==
    /\ (IF run = None THEN 0 ELSE run[1].n) < MaxEvaluations
    /\ \E input \in CustomInputs, target \in Targets, v \in [StubsOf(fb) -> Verdicts] :
       \E env \in { [exit_kind |-> harness(input, target), verdict |-> v, last_runtime |-> None,
                     unit |-> [x \in StubsOf(fb) |-> OkUnit]] } :
       \E e \in { evaluate_verdicts(fb, twin, env) } :
       \E res \in { IF ~e.ret.ok THEN "Err"
                     ELSE IF e.solution[1] THEN "Solution"
                     ELSE IF e.interesting[1] THEN "Corpus"
                     ELSE "None" } :
       \E walked \in { evaluate_walks(res, e, env, Testcase_new) } :
         LET n == IF run = None THEN 1 ELSE run[1].n + 1
         IN  /\ fb' = e.feedback
             /\ twin' = e.objective
             /\ op' = "evaluate_input"
             /\ arg' = env
             /\ ret' = IF e.ret.ok THEN Ok(res) ELSE e.ret
             /\ log' = walked.log
             /\ list' = <<>>
             /\ testcase' = walked.testcase
             /\ run' = Some([n |-> n, input |-> input, target |-> target])
             /\ twin_out' = NoOutput
             /\ corpus' = IF res = "Corpus" THEN Append(corpus, input) ELSE corpus
             /\ solutions' = IF res = "Solution" THEN Append(solutions, input) ELSE solutions
             /\ UNCHANGED stvars

NextBaby == BabyExecution

SpecBaby == BabyInit /\ [][NextBaby]_vars

----------------------------------------------------------------------------
(* Properties of the feedback algebra, checked under Spec *)

\* What a child returns when it is asked alone about the run of the most recent
\* is_interesting call (a leaf's verdict does not depend on its own fields).
ChildVerdict(c) == is_interesting(c, arg, <<>>).ret

\* C1: for each of the four combinators and every pair of child verdicts (a, b),
\* when no child returns an error, is_interesting of the combined feedback
\* returns a OR b for the two OR variants and a AND b for the two AND variants.
C1_TruthTable ==
    (op = "is_interesting" /\ fb.kind = "CombinedFeedback") =>
        LET a == ChildVerdict(fb.first)
            b == ChildVerdict(fb.second)
        IN  (a.ok /\ b.ok) =>
                ret = Ok(IF fb.logic \in OrLogics THEN a.val \/ b.val ELSE a.val /\ b.val)

C1_Witness ==
    /\ op = "is_interesting"
    /\ IsStubPair(fb)
    /\ fb.logic = "LogicFastAnd"
    /\ arg.verdict["A"] = Ok(TRUE)
    /\ arg.verdict["B"] = Ok(FALSE)
    /\ ret = Ok(FALSE)

\* C2: in every is_interesting call on FastOr(A, B), B.is_interesting is not
\* invoked when A returned true and is invoked exactly once when A returned
\* false; on FastAnd(A, B) it is not invoked when A returned false and is
\* invoked exactly once when A returned true.
C2_ShortCircuit ==
    (op = "is_interesting" /\ IsStubPair(fb)) =>
        /\ (fb.logic = "LogicFastOr" /\ arg.verdict["A"] = Ok(TRUE)) => Calls(log, "B") = 0
        /\ (fb.logic = "LogicFastOr" /\ arg.verdict["A"] = Ok(FALSE)) => Calls(log, "B") = 1
        /\ (fb.logic = "LogicFastAnd" /\ arg.verdict["A"] = Ok(FALSE)) => Calls(log, "B") = 0
        /\ (fb.logic = "LogicFastAnd" /\ arg.verdict["A"] = Ok(TRUE)) => Calls(log, "B") = 1

C2_Witness ==
    /\ op = "is_interesting"
    /\ IsStubPair(fb)
    /\ fb.logic = "LogicFastOr"
    /\ arg.verdict["A"] = Ok(TRUE)
    /\ arg.verdict["B"] = Ok(TRUE)
    /\ log = << <<"A", "is_interesting">> >>
    /\ fb.second.last_result = Some(FALSE)

\* C3: every is_interesting call on EagerOr(A, B) or EagerAnd(A, B) in which A
\* returns a verdict invokes A.is_interesting and then B.is_interesting once
\* each, whatever A's verdict is, so that B's side effect (here: caching its
\* verdict) happens even when A's verdict decides the result.
C3_EagerCallsBoth ==
    ( /\ op = "is_interesting"
      /\ IsStubPair(fb)
      /\ fb.logic \in {"LogicEagerOr", "LogicEagerAnd"}
      /\ arg.verdict["A"].ok ) =>
        /\ log = << <<"A", "is_interesting">>, <<"B", "is_interesting">> >>
        /\ arg.verdict["B"].ok => fb.second.last_result = Some(arg.verdict["B"].val)

C3_Witness ==
    /\ op = "is_interesting"
    /\ IsStubPair(fb)
    /\ fb.logic = "LogicEagerOr"
    /\ arg.verdict["A"] = Ok(TRUE)
    /\ arg.verdict["B"] = Ok(FALSE)
    /\ ret = Ok(TRUE)
    /\ Calls(log, "B") = 1
    /\ fb.second.last_result = Some(FALSE)

\* C4: append_metadata and discard_metadata of a combined feedback call the
\* first child and then the second child, for every combinator, whatever the
\* children's verdicts were and whether or not the second child was skipped in
\* the preceding is_interesting call (the first child's call succeeding).
C4_MetadataBothInOrder ==
    ( /\ op \in {"append_metadata", "discard_metadata"}
      /\ IsStubPair(fb)
      /\ arg.unit["A"].ok ) =>
        log = << <<"A", op>>, <<"B", op>> >>

C4_Witness ==
    /\ op = "discard_metadata"
    /\ IsStubPair(fb)
    /\ fb.logic = "LogicFastOr"
    /\ run # None
    /\ run[1].ret = Ok(TRUE)
    /\ run[1].log = << <<"A", "is_interesting">> >>
    /\ log = << <<"A", "discard_metadata">>, <<"B", "discard_metadata">> >>

LeafKinds ==
    {"CrashFeedback", "TimeoutFeedback", "DiffExitKindFeedback", "TimeFeedback", "ConstFeedback"}

\* C6 as claimed: for every leaf feedback, last_result before the first
\* is_interesting call fails with an illegal-state error, and after a call it
\* returns the verdict of that call.
C6_AsClaimed ==
    (op = "last_result" /\ fb.kind \in LeafKinds) =>
        IF run = None THEN ret = premature_last_result_err ELSE ret = run[1].ret

\* C6 as amended: last_result before the first is_interesting call fails with an
\* illegal-state error for CrashFeedback, TimeoutFeedback and
\* DiffExitKindFeedback; TimeFeedback and ConstFeedback keep no cache and return
\* Ok(false) and Ok(their constant) also before the first call; after a call
\* every leaf returns the verdict of that call.
C6_LastResult ==
    (op = "last_result" /\ fb.kind \in LeafKinds) =>
        IF run # None THEN ret = run[1].ret
        ELSE CASE fb.kind = "TimeFeedback" -> ret = Ok(FALSE)
               [] fb.kind = "ConstFeedback" -> ret = Ok(fb.val)
               [] OTHER -> ret = premature_last_result_err

C6_Witness ==
    /\ op = "last_result"
    /\ fb.kind = "CrashFeedback"
    /\ run = None
    /\ ret = premature_last_result_err

\* C7: hit attribution of an OR combinator (eager and fast alike) reports only
\* the first true child: the first child's name when its last result is true,
\* even if the second child's is true too; the second child's name only when the
\* first is false and the second is true; nothing when both are false.
C7_OrHits ==
    ( /\ op = "append_hit_feedbacks"
      /\ fb.kind = "CombinedFeedback"
      /\ fb.logic \in OrLogics
      /\ IsLeaf(fb.first)
      /\ IsLeaf(fb.second) ) =>
        LET fr == last_result(fb.first)
            sr == last_result(fb.second)
        IN  /\ fr = Ok(TRUE) => list = Append(arg.list, name(fb.first))
            /\ (fr = Ok(FALSE) /\ sr = Ok(TRUE)) => list = Append(arg.list, name(fb.second))
            /\ (fr = Ok(FALSE) /\ sr = Ok(FALSE)) => list = arg.list
            /\ list # arg.list => (fr = Ok(TRUE) \/ (fr = Ok(FALSE) /\ sr = Ok(TRUE)))

C7_Witness ==
    /\ op = "append_hit_feedbacks"
    /\ IsStubPair(fb)
    /\ fb.logic = "LogicEagerOr"
    /\ last_result(fb.first) = Ok(TRUE)
    /\ last_result(fb.second) = Ok(TRUE)
    /\ arg.list = <<"earlier">>
    /\ list = <<"earlier", "A">>

\* C8: hit attribution of an AND combinator (eager and fast) appends the first
\* child's name and then the second child's name when both children's last
\* results are true, and appends nothing otherwise.
C8_AndHits ==
    ( /\ op = "append_hit_feedbacks"
      /\ fb.kind = "CombinedFeedback"
      /\ fb.logic \in AndLogics
      /\ IsLeaf(fb.first)
      /\ IsLeaf(fb.second) ) =>
        IF last_result(fb.first) = Ok(TRUE) /\ last_result(fb.second) = Ok(TRUE)
        THEN list = arg.list \o <<name(fb.first), name(fb.second)>>
        ELSE list = arg.list

C8_Witness ==
    /\ op = "append_hit_feedbacks"
    /\ IsStubPair(fb)
    /\ fb.logic = "LogicFastAnd"
    /\ arg.list = <<"earlier">>
    /\ list = <<"earlier", "A", "B">>

\* C9 as claimed: Not(Not(F)) and F alone, driven by the same calls, return the
\* same verdict from is_interesting, leave the same testcase after
\* append_metadata and append the same names in hit attribution.
C9_AsClaimed ==
    (IsNotNot(fb) /\ op \in {"is_interesting", "append_metadata", "append_hit_feedbacks"}) =>
        /\ ret = twin_out.ret
        /\ testcase = twin_out.testcase
        /\ list = twin_out.list

\* C9 as amended: Not(Not(F)) and F alone, driven by the same calls, return the
\* same result from is_interesting and from append_metadata, make the same calls
\* on the feedbacks below and leave the same testcase; hit attribution differs:
\* Not(Not(F)) appends the single name "Not(Not(<name of F>))" exactly when F's
\* last result is true, and fails exactly when F's last_result fails.
C9_NotNot ==
    IsNotNot(fb) =>
        /\ op \in {"is_interesting", "append_metadata"} =>
                /\ ret = twin_out.ret
                /\ log = twin_out.log
                /\ testcase = twin_out.testcase
        /\ op = "append_hit_feedbacks" =>
                LET r == last_result(twin)
                IN  /\ ret.ok = r.ok
                    /\ list = IF r = Ok(TRUE)
                              THEN Append(arg.list, "Not(Not(" \o name(twin) \o "))")
                              ELSE arg.list

C9_Witness ==
    /\ IsNotNot(fb)
    /\ op = "append_hit_feedbacks"
    /\ twin.kind = "CrashFeedback"
    /\ list = <<"Not(Not(CrashFeedback))">>
    /\ twin_out.list = <<"CrashFeedback">>

RECURSIVE EvaluatedNodes(_, _)

\* The nodes of the tree f whose is_interesting is called when f's is called
\* in a run with the inputs env.
EvaluatedNodes(f, env) ==
    CASE f.kind = "CombinedFeedback" ->
            LET a == is_interesting(f.first, env, <<>>).ret
                skipped == \/ ~a.ok
                           \/ (f.logic = "LogicFastOr" /\ a.val)
                           \/ (f.logic = "LogicFastAnd" /\ ~a.val)
            IN  {f} \cup EvaluatedNodes(f.first, env)
                    \cup (IF skipped THEN {} ELSE EvaluatedNodes(f.second, env))
      [] f.kind = "NotFeedback" -> {f} \cup EvaluatedNodes(f.first, env)
      [] OTHER -> {f}

\* C27: when the most recent is_interesting call on the tree succeeded,
\* last_result of the root, and of every node that call evaluated, is the
\* verdict the node returned in that call, whatever the calls before it did.
C27_LastResultCached ==
    (run # None /\ run[1].ret.ok) =>
        /\ last_result(fb) = run[1].ret
        /\ \A c \in EvaluatedNodes(fb, run[1].env) :
              last_result(c) = is_interesting(c, run[1].env, <<>>).ret

C27_Witness ==
    /\ op = "last_result"
    /\ name(fb) = name(feedback_or_fast(ChainStubs(2)))
    /\ run # None
    /\ run[1].env.verdict["A"] = Ok(TRUE)
    /\ fb.second.last_result = None
    /\ ret = Ok(TRUE)

\* The fast combinators whose second child the most recent, successful
\* is_interesting call skipped: FastOr with first = true, FastAnd with first =
\* false, the second child being a feedback that caches its verdict.
SecondSkipped ==
    /\ fb.kind = "CombinedFeedback"
    /\ fb.logic \in {"LogicFastOr", "LogicFastAnd"}
    /\ run # None
    /\ run[1].ret.ok
    /\ last_result(fb.first) = Ok(fb.logic = "LogicFastOr")
    /\ fb.second.kind \in {"Stub", "CrashFeedback", "TimeoutFeedback", "DiffExitKindFeedback"}

\* C33: for FastOr with first = true and FastAnd with first = false, last_result
\* and append_hit_feedbacks of the combined feedback return no error and give
\* the same outcome (the first child's verdict, and the first child's hits for
\* FastOr, none for FastAnd) whether the cache of the skipped second child is
\* never-run, stale true or stale false.
C33_SkippedCacheUnread ==
    SecondSkipped =>
        /\ op = "last_result" => ret = Ok(fb.logic = "LogicFastOr")
        /\ op = "append_hit_feedbacks" =>
              /\ ret = OkUnit
              /\ list = IF fb.logic = "LogicFastOr"
                        THEN append_hit_feedbacks(fb.first, arg.list).list
                        ELSE arg.list
        /\ \A c \in {None, Some(TRUE), Some(FALSE)} :
              LET g == [fb EXCEPT !.second.last_result = c]
              IN  /\ last_result(g) = last_result(fb)
                  /\ last_result(g).ok
                  /\ \A l \in {<<>>, <<"earlier">>} :
                        /\ append_hit_feedbacks(g, l) = append_hit_feedbacks(fb, l)
                        /\ append_hit_feedbacks(g, l).ret = OkUnit

\* FastAnd(A, B) whose B holds a stale true when A's false makes the call skip it.
C33_Witness ==
    /\ SecondSkipped
    /\ IsStubPair(fb)
    /\ fb.logic = "LogicFastAnd"
    /\ fb.second.last_result = Some(TRUE)
    /\ Calls(run[1].log, "B") = 0
    /\ op = "last_result"
    /\ ret = Ok(FALSE)

\* The result a stub child was told to return in the most recent call of op.
Told(n) == IF op = "is_interesting" THEN arg.verdict[n] ELSE arg.unit[n]

\* C31: in all four combinators, the eager ones included, the first child's
\* is_interesting is invoked before the second child's, and when the first
\* child returns an error the combined is_interesting returns that error and
\* the second child is not invoked; init_state, append_metadata and
\* discard_metadata of a combined feedback stop in the same way at the first
\* child's error.
C31_FirstErrorStops ==
    ( /\ IsStubPair(fb)
      /\ op \in {"is_interesting", "init_state", "append_metadata", "discard_metadata"} ) =>
        /\ Len(log) >= 1
        /\ log[1] = <<"A", op>>
        /\ \A i \in 2..Len(log) : log[i] = <<"B", op>>
        /\ Len(log) <= 2
        /\ ~Told("A").ok =>
              /\ ret = Told("A")
              /\ log = << <<"A", op>> >>
              /\ op = "append_metadata" => testcase = Testcase_new

C31_Witness ==
    /\ IsStubPair(fb)
    /\ fb.logic = "LogicEagerAnd"
    /\ op = "is_interesting"
    /\ ~arg.verdict["A"].ok
    /\ arg.verdict["B"] = Ok(TRUE)
    /\ ret = arg.verdict["A"]
    /\ Calls(log, "B") = 0
    /\ fb.second.last_result = None

----------------------------------------------------------------------------
(* Properties of the tuneable stage, checked under SpecStage *)

\* C10: when only iters = n is configured (fuzz_time unset) and no call fails,
\* one invocation of the stage on a transformable testcase calls the mutator
\* exactly n times, however much time passes meanwhile.
C10_ItersOnly ==
    ( /\ stage.pc = "returned"
      /\ stage.transformed
      /\ stage.fuzz_time = None
      /\ stage.iters # None
      /\ stage_ret = Some(OkUnit) ) =>
        stage.mutations = stage.iters[1]

C10_Witness ==
    /\ stage.pc = "returned"
    /\ stage.transformed
    /\ stage.fuzz_time = None
    /\ stage.iters = Some(2)
    /\ get_iters_by_name(named_metadata, stage.name) = Ok(Some(2))
    /\ stage_ret = Some(OkUnit)
    /\ stage.mutations = 2
    /\ invocations = 1
    /\ clock >= 2

\* The positions of perform_mutation: an iteration is in flight.
InFlight == {"mutate", "transform_into", "evaluate", "mutator_post_exec", "post_post_exec"}

\* C11: with both fuzz_time and iters configured, the loop starts at most iters
\* iterations; no iteration is in flight whose loop head read an elapsed time
\* >= fuzz_time; a loop head that reads elapsed >= fuzz_time returns success
\* without another mutation; and a successful return means the range was used
\* up or the last loop head read elapsed >= fuzz_time.
C11_BothSet ==
    /\ []( (stage.transformed /\ stage.fuzz_time # None /\ stage.iters # None) =>
             /\ stage.i <= stage.iters[1]
             /\ stage.mutations <= stage.iters[1]
             /\ stage.pc \in InFlight =>
                  (stage.elapsed # None /\ stage.elapsed[1] < stage.fuzz_time[1])
             /\ (stage.pc = "returned" /\ stage_ret = Some(OkUnit)) =>
                  \/ stage.i = stage.iters[1]
                  \/ (stage.elapsed # None /\ stage.elapsed[1] >= stage.fuzz_time[1]) )
    /\ [][ ( /\ stage.pc = "head" /\ stage' # stage
             /\ stage.fuzz_time # None /\ stage.iters # None
             /\ stage.i < stage.iters[1]
             /\ clock - stage.start_time >= stage.fuzz_time[1] ) =>
               /\ stage'.pc = "returned"
               /\ stage_ret' = Some(OkUnit)
               /\ stage'.mutations = stage.mutations
               /\ stage'.evals = stage.evals ]_vars

C11_Witness ==
    /\ stage.pc = "returned"
    /\ stage_ret = Some(OkUnit)
    /\ stage.fuzz_time = Some(1)
    /\ stage.iters = Some(2)
    /\ stage.mutations = 1
    /\ stage.evals = 1
    /\ stage.elapsed = Some(1)

\* C12: the fuzz-time budget is read at the loop head only. An iteration in
\* flight goes on to its next call or to the loop head whatever the clock says,
\* and leaves perform_mutational only with the error of a failing call (or with
\* the process, when the target crashes); and when a loop head ends the loop on
\* time, the loop head before it had read an elapsed time below fuzz_time, so the
\* loop overruns fuzz_time by less than the time from that loop head to this one.
C12_HeadOnly ==
    /\ [][ (stage.pc \in InFlight /\ stage' # stage) =>
             \/ stage'.pc \in InFlight \cup {"head"}
             \/ stage'.pc = "returned" /\ ~stage_ret'[1].ok
             \/ stage'.pc = "idle" /\ stage.pc = "evaluate" ]_vars
    /\ [][ ( /\ stage.pc = "head" /\ stage'.pc = "returned"
             /\ stage.fuzz_time # None
             /\ stage'.elapsed # None
             /\ stage'.elapsed[1] >= stage.fuzz_time[1] ) =>
               LET before == IF stage.elapsed = None THEN 0 ELSE stage.elapsed[1]
                   over == stage'.elapsed[1] - stage.fuzz_time[1]
               IN  /\ stage.elapsed # None => stage.elapsed[1] < stage.fuzz_time[1]
                   /\ over <= stage'.elapsed[1] - before ]_vars

C12_Witness ==
    /\ stage.pc = "returned"
    /\ stage_ret = Some(OkUnit)
    /\ stage.fuzz_time = Some(1)
    /\ stage.elapsed = Some(3)
    /\ stage.evals = 1
    /\ Len(trace) = 5

\* The executions attributed to the stage run: those since its snapshot.
Attributed == IF progress = None THEN 0 ELSE executions - progress[1]

\* C14 as stated, with one budget B for the stage run (the one drawn when the
\* run started): the run performs at most B executions in total, and a resumed
\* invocation starts no more than B - (E1 - E0) iterations.
C14_AsClaimed ==
    (stage.transformed /\ stage.budget # None) =>
        LET B == stage.first_budget[1]
            already == stage.since[1]
        IN  /\ Attributed <= B
            /\ stage.i <= (IF B >= already THEN B - already ELSE 0)

\* C14: in randomized mode every invocation draws its own budget B in
\* [1, DEFAULT_MUTATIONAL_MAX_ITERATIONS] and iterates B minus the executions
\* attributed to the stage run at its entry (E1 - E0), saturating at 0; each
\* iteration executes at most once. So a run that was not interrupted performs
\* at most B executions, and a resumed invocation performs at most B - (E1 - E0)
\* further iterations for the B it drew itself: the run's total is at most the
\* larger of that B and E1 - E0.
C14_RandomBudget ==
    (stage.transformed /\ stage.budget # None) =>
        LET B == stage.budget[1]
            already == stage.since[1]
            remaining == IF B >= already THEN B - already ELSE 0
        IN  /\ B \in 1..DEFAULT_MUTATIONAL_MAX_ITERATIONS
            /\ progress # None
            /\ already = stage.entry - progress[1]
            /\ stage.limit = Some(remaining)
            /\ stage.i <= remaining
            /\ stage.evals <= stage.i
            /\ executions - stage.entry = stage.evals
            /\ (stage.pc = "returned" /\ stage_ret = Some(OkUnit)) => stage.i = remaining
            /\ already = 0 => Attributed <= B
            /\ Attributed <= (IF B >= already THEN B ELSE already)

C14_Witness ==
    /\ stage.pc = "returned"
    /\ stage_ret = Some(OkUnit)
    /\ stage.first_budget = Some(1)
    /\ stage.budget = Some(2)
    /\ stage.since = Some(1)
    /\ stage.i = 1
    /\ stage.evals = 1
    /\ Attributed = 2

\* C15: an invocation that read fuzz_time = 0 (with or without an iteration
\* cap) calls neither the mutator nor evaluate_input, executes nothing and
\* returns success.
C15_ZeroFuzzTime ==
    (stage.pc \notin {"idle", "ready"} /\ stage.fuzz_time = Some(0)) =>
        /\ stage.mutations = 0
        /\ stage.evals = 0
        /\ executions = stage.entry
        /\ trace = <<>>
        /\ stage.pc \in {"head", "returned"}
        /\ stage.pc = "returned" => stage_ret = Some(OkUnit)

C15_Witness ==
    /\ stage.pc = "returned"
    /\ stage.transformed
    /\ stage.fuzz_time = Some(0)
    /\ stage.iters = Some(2)
    /\ stage.elapsed = Some(0)
    /\ stage.mutations = 0
    /\ stage_ret = Some(OkUnit)

\* C16: an invocation that read iters = 0 (with or without a fuzz time) calls
\* neither the mutator nor evaluate_input, executes nothing and returns success.
C16_ZeroIters ==
    (stage.pc \notin {"idle", "ready"} /\ stage.iters = Some(0)) =>
        /\ stage.mutations = 0
        /\ stage.evals = 0
        /\ executions = stage.entry
        /\ trace = <<>>
        /\ stage.pc \in {"head", "returned"}
        /\ stage.pc = "returned" => stage_ret = Some(OkUnit)

C16_Witness ==
    /\ stage.pc = "returned"
    /\ stage.transformed
    /\ stage.iters = Some(0)
    /\ stage.fuzz_time = Some(2)
    /\ stage.limit = Some(0)
    /\ stage.mutations = 0
    /\ stage_ret = Some(OkUnit)

\* C17: after an iteration whose mutate returned Skipped, mutate is the only
\* call the iteration made, and the execution counter, what
\* execs_since_progress_start returns and both corpora are as they were when
\* the iteration began. An invocation with only iters = n configured whose
\* every mutate returned Skipped and that returns success has called the
\* mutator n times and evaluate_input never, with the corpora and the
\* execution counter untouched.
C17_Skipped ==
    /\ (stage.pc = "head" /\ stage.mutated = Some("Skipped")) =>
          /\ trace = << <<"mutate", "seed">> >>
          /\ executions = stage.iter_start[1].executions
          /\ execs_since_progress_start(progress, executions) = stage.iter_start[1].since
          /\ stage.corpus = stage.iter_start[1].corpus
          /\ stage.solutions = stage.iter_start[1].solutions
    /\ ( /\ stage.pc = "returned" /\ stage_ret = Some(OkUnit)
         /\ stage.transformed
         /\ stage.fuzz_time = None /\ stage.iters # None
         /\ stage.skipped = stage.mutations ) =>
          /\ stage.mutations = stage.iters[1]
          /\ stage.evals = 0
          /\ ~stage.corpus /\ ~stage.solutions
          /\ executions = stage.entry

C17_Witness ==
    /\ stage.pc = "returned"
    /\ stage_ret = Some(OkUnit)
    /\ stage.fuzz_time = None
    /\ stage.iters = Some(2)
    /\ stage.skipped = 2
    /\ stage.mutations = 2
    /\ stage.evals = 0
    /\ stage.mutated = Some("Skipped")
    /\ trace = << <<"mutate", "seed">> >>

\* The calls of an iteration whose mutate returned Mutated, in order, with the
\* corpus id that evaluate_input returned.
MutatedOrder(corpus_id) ==
    << <<"mutate", "seed">>, <<"try_transform_into">>, <<"evaluate_input">>,
       <<"mutator.post_exec", corpus_id>>, <<"post.post_exec", corpus_id>> >>

\* How many calls the iteration has made when it stands at pc.
CallsMade(pc) ==
    CASE pc = "mutate" -> 0
      [] pc = "transform_into" -> 1
      [] pc = "evaluate" -> 2
      [] pc = "mutator_post_exec" -> 3
      [] pc = "post_post_exec" -> 4
      [] pc = "head" -> 5

\* C18: an iteration whose mutate returned Mutated makes its calls once each in
\* the order mutate (on a clone equal to the stored input), try_transform_into,
\* evaluate_input, mutator.post_exec, post.post_exec; both post_exec calls get
\* the corpus id that this iteration's evaluate_input returned (the id of the
\* entry just added, or none); and the stored transformed input stays as
\* try_transform_from gave it.
C18_MutatedOrder ==
    /\ stage.transformed => stage.input = Some("seed")
    /\ (stage.pc \in InFlight \cup {"head"} /\ stage.mutated = Some("Mutated")) =>
          /\ trace = SubSeq(MutatedOrder(stage.corpus_id), 1, CallsMade(stage.pc))
          /\ stage.clone = Some("mutated")
          /\ stage.corpus_id # None => stage.corpus_id = Some(executions)
          /\ stage.pc \in {"mutator_post_exec", "post_post_exec", "head"} =>
                executions = stage.iter_start[1].executions + 1
    /\ (stage.pc = "mutate") => (trace = <<>> /\ stage.clone = stage.input)

C18_Witness ==
    /\ stage.pc = "head"
    /\ stage.mutated = Some("Mutated")
    /\ stage.mutations = 2
    /\ stage.evals = 2
    /\ stage.corpus_id = Some(2)
    /\ trace = MutatedOrder(Some(2))

\* C19: when try_transform_from refuses the testcase, perform_mutational
\* returns success and has called neither the mutator nor evaluate_input nor a
\* post_exec, whatever fuzz_time and iters are configured.
C19_Refused ==
    stage.refused =>
        /\ stage.pc = "returned"
        /\ stage_ret = Some(OkUnit)
        /\ ~stage.transformed
        /\ stage.mutations = 0
        /\ stage.evals = 0
        /\ trace = <<>>
        /\ executions = stage.entry

C19_Witness ==
    /\ stage.refused
    /\ stage.pc = "returned"
    /\ stage.fuzz_time = Some(2)
    /\ stage.iters = Some(2)
    /\ stage_ret = Some(OkUnit)

\* C20: right after set_iters(n) the getter of iters returns Some(n); right
\* after set_seed_fuzz_time(t) the getter of the fuzz time returns Some(t);
\* right after reset both getters return None, whatever setters and resets
\* came before; and an invocation that starts while both getters return None
\* takes the randomized branch.
C20_SetGetReset ==
    /\ []( stage.last_cfg # None =>
             LET call == stage.last_cfg[1]
                 get_iters == get_iters_by_name(named_metadata, stage.name)
                 get_time == get_seed_fuzz_time_by_name(named_metadata, stage.name)
             IN  /\ call[1] = "set_iters" => get_iters = Ok(Some(call[2]))
                 /\ call[1] = "set_seed_fuzz_time" => get_time = Ok(Some(call[2]))
                 /\ call[1] = "reset" => (get_iters = Ok(None) /\ get_time = Ok(None)) )
    /\ [][ ( /\ stage.pc = "ready" /\ stage'.pc = "head"
             /\ get_iters_by_name(named_metadata, stage.name) = Ok(None)
             /\ get_seed_fuzz_time_by_name(named_metadata, stage.name) = Ok(None) ) =>
               /\ stage'.budget # None
               /\ stage'.limit =
                    Some(saturating_sub(stage'.budget[1], stage'.since[1])) ]_vars

C20_Witness ==
    /\ stage.last_cfg = Some(<<"reset">>)
    /\ get_iters_by_name(named_metadata, stage.name) = Ok(None)
    /\ invocations = 1
    /\ executions = 2
    /\ progress = None

\* C22: whatever was executed before, the invocation that follows
\* clear_progress starts with execs_since_progress_start = 0; in randomized
\* mode its loop bound is the whole budget it drew, and when no call fails it
\* performs that many iterations.
C22_ClearProgress ==
    /\ (stage.after_clear /\ stage.pc = "idle") => progress = None
    /\ (stage.after_clear /\ stage.pc = "ready") =>
          execs_since_progress_start(progress, executions) = Ok(0)
    /\ (stage.after_clear /\ stage.budget # None) =>
          /\ stage.since = Some(0)
          /\ stage.limit = stage.budget
          /\ (stage.pc = "returned" /\ stage_ret = Some(OkUnit)) =>
                (stage.i = stage.budget[1] /\ stage.mutations = stage.budget[1])

C22_Witness ==
    /\ stage.after_clear
    /\ stage.pc = "returned"
    /\ stage_ret = Some(OkUnit)
    /\ stage.entry = 2
    /\ stage.budget = Some(2)
    /\ stage.mutations = 2
    /\ executions = 4

\* C23: no step lowers the execution counter, and a step of the stage changes
\* it only inside evaluate_input of an iteration whose mutate returned Mutated.
C23_ExecutionsMonotone ==
    [][ /\ executions' >= executions
        /\ executions' # executions =>
             (stage.pc = "evaluate" /\ stage.mutated = Some("Mutated")) ]_vars

C23_Witness ==
    /\ executions = 3
    /\ invocations = 2
    /\ stage.after_clear
    /\ stage.pc = "mutator_post_exec"
    /\ stage.skipped = 1

\* The error that the stubbed call of perform_mutation returns when it fails.
FailureOf(call) ==
    CASE call = "mutate" -> Err("mutator failure")
      [] call = "try_transform_into" -> Err("transform failure")
      [] call = "evaluate_input" -> Err("executor failure")
      [] call = "mutator.post_exec" -> Err("mutator failure")
      [] call = "post.post_exec" -> Err("post_exec failure")

\* The place of the call in the order of perform_mutation.
PlaceOf(call) ==
    CASE call = "mutate" -> 1
      [] call = "try_transform_into" -> 2
      [] call = "evaluate_input" -> 3
      [] call = "mutator.post_exec" -> 4
      [] call = "post.post_exec" -> 5

\* C25: when mutate, try_transform_into, evaluate_input or one of the two
\* post_exec calls returns an error, the invocation has returned that error:
\* the failing call is the last call of its iteration, and no iteration was
\* started after it, whatever the loop policy.
C25_ErrorReturns ==
    stage.failed # None =>
        /\ stage.pc = "returned"
        /\ stage_ret = Some(FailureOf(stage.failed[1]))
        /\ trace = SubSeq(MutatedOrder(stage.corpus_id), 1, PlaceOf(stage.failed[1]))
        /\ stage.mutations = stage.i

C25_Witness ==
    /\ stage.failed = Some("post.post_exec")
    /\ stage.fuzz_time # None
    /\ stage.iters = None
    /\ stage.i = 2
    /\ stage.evals = 2
    /\ stage_ret = Some(Err("post_exec failure"))

\* C28: the borrow of the current testcase is never held outside
\* perform_mutational's first lines: it is released at every loop head and in
\* every iteration, and after the early return of a refused transform.
C28_BorrowReleased ==
    /\ stage.borrow # "held"
    /\ stage.pc \in InFlight \cup {"head"} => stage.borrow = "released"
    /\ stage.mutations > 0 => stage.borrow = "released"
    /\ stage.refused => stage.borrow = "released"

C28_Witness ==
    /\ stage.pc = "mutate"
    /\ stage.i = 1
    /\ stage.mutations = 0
    /\ stage.borrow = "released"

----------------------------------------------------------------------------
(* Properties of the stage with a sleeping mutator, checked under SpecSleep *)

\* C13: with fuzz_time = 50ms, no iteration cap and a mutator that sleeps 20ms
\* in every call (each iteration taking up to MaxOverhead ticks more), an
\* invocation on a transformable testcase in which no call fails performs 2 or
\* 3 iterations: the loop head after the third iteration finds the time up.
C13_TwoOrThree ==
    /\ ( /\ stage.pc = "returned"
         /\ stage.transformed
         /\ stage_ret = Some(OkUnit) ) =>
           /\ stage.fuzz_time = Some(Ms(50))
           /\ stage.iters = None
           /\ stage.mutations \in 2..3
           /\ stage.i = stage.mutations
    /\ (stage.pc = "head" /\ stage.i >= 3) => loop_time_is_up(stage, clock)

C13_Witness ==
    /\ stage.pc = "returned"
    /\ stage_ret = Some(OkUnit)
    /\ stage.fuzz_time = Some(Ms(50))
    /\ stage.iters = None
    /\ stage.mutations = 2
    /\ stage.evals = 2
    /\ stage.elapsed = Some(Ms(50))

----------------------------------------------------------------------------
(* Properties of the by-name functions and of a stage that is reconfigured  *)
(* while its loop runs, checked under SpecConfig                            *)

\* C21: for every name under which the map holds no metadata, the two
\* setters, the two getters and reset return the illegal-state error and the
\* setters and reset give the map back as it was; a call that failed left the
\* map unchanged; and a stage invocation that finds no metadata under its
\* name has returned that error without a transform, a mutation or an
\* evaluation.
C21_NotInUse ==
    /\ []( /\ \A n \in ConfigNames \ DOMAIN named_metadata :
                /\ \A iters \in 0..MaxIters :
                      set_iters_by_name(named_metadata, iters, n) =
                         [ret |-> not_in_use_err, map |-> named_metadata]
                /\ \A fuzz_time \in 0..MaxFuzzTime :
                      set_seed_fuzz_time_by_name(named_metadata, fuzz_time, n) =
                         [ret |-> not_in_use_err, map |-> named_metadata]
                /\ reset_by_name(named_metadata, n) =
                         [ret |-> not_in_use_err, map |-> named_metadata]
                /\ get_iters_by_name(named_metadata, n) = not_in_use_err
                /\ get_seed_fuzz_time_by_name(named_metadata, n) = not_in_use_err
           /\ stage.cfg_call # None =>
                 IF stage.cfg_call[1][2] \in DOMAIN named_metadata
                 THEN stage.cfg_call[1][3] = OkUnit
                 ELSE stage.cfg_call[1][3] = not_in_use_err
           /\ (stage.pc = "returned" /\ stage.name \notin DOMAIN named_metadata) =>
                 /\ stage_ret = Some(not_in_use_err)
                 /\ ~stage.transformed /\ ~stage.refused
                 /\ stage.borrow = "none"
                 /\ stage.mutations = 0 /\ stage.evals = 0
                 /\ trace = <<>> )
    /\ [][ (stage'.cfg_call # None /\ ~stage'.cfg_call[1][3].ok) =>
              named_metadata' = named_metadata ]_vars

C21_Witness ==
    /\ stage.cfg_call = Some(<<"set_iters", "OtherStage", not_in_use_err>>)
    /\ DOMAIN named_metadata = {STD_TUNEABLE_MUTATIONAL_STAGE_NAME}
    /\ named_metadata[STD_TUNEABLE_MUTATIONAL_STAGE_NAME].fuzz_time = Some(1)
    /\ executions = 1

\* C30: an invocation takes (fuzz_time, iters) from the metadata when it starts
\* (also when the transform then refuses); while its loop runs they and the
\* loop's bound stay as read, whatever a mutator stores in the metadata; the
\* loop goes on and ends by what was read; and the next invocation reads what
\* the metadata holds then.
C30_ConfigReadOnce ==
    /\ []( /\ stage.pc \in InFlight =>
                /\ stage.limit # None => stage.i <= stage.limit[1]
                /\ stage.fuzz_time # None =>
                      (stage.elapsed # None /\ stage.elapsed[1] < stage.fuzz_time[1])
           /\ (stage.pc = "returned" /\ stage.transformed /\ stage_ret = Some(OkUnit)) =>
                \/ (stage.limit # None /\ stage.i = stage.limit[1])
                \/ ( /\ stage.fuzz_time # None /\ stage.elapsed # None
                     /\ stage.elapsed[1] >= stage.fuzz_time[1] ) )
    /\ [][ (stage.pc = "ready" /\ (stage'.transformed \/ stage'.refused)) =>
              /\ stage'.fuzz_time = named_metadata[stage.name].fuzz_time
              /\ stage'.iters = named_metadata[stage.name].iters ]_vars
    /\ [][ (stage.pc \in InFlight \cup {"head"}) =>
              /\ stage'.fuzz_time = stage.fuzz_time
              /\ stage'.iters = stage.iters
              /\ stage'.limit = stage.limit
              /\ stage'.start_time = stage.start_time ]_vars

C30_Witness ==
    /\ stage.pc = "mutate"
    /\ stage.i = 2
    /\ stage.iters = Some(2)
    /\ stage.fuzz_time = None
    /\ named_metadata[stage.name] = [iters |-> Some(0), fuzz_time |-> None]
    /\ invocations = 2

----------------------------------------------------------------------------
(* Properties of the time-only stage, checked under SpecTimeOnly *)

\* C29: with a fuzz time and no iters the loop's range has no upper end; an
\* invocation that returned success after a transform did so because a loop
\* head read elapsed >= fuzz_time, so it does not return before the clock has
\* advanced by fuzz_time unless a call fails; and when the clock goes on and
\* every call comes back, every invocation that was started returns.
C29_TimeOnly ==
    /\ []( stage.transformed =>
             /\ stage.fuzz_time # None /\ stage.iters = None /\ stage.limit = None
             /\ (stage.pc = "returned" /\ stage.failed = None) =>
                   /\ stage_ret = Some(OkUnit)
                   /\ stage.elapsed # None
                   /\ stage.elapsed[1] >= stage.fuzz_time[1]
                   /\ clock - stage.start_time >= stage.fuzz_time[1] )
    /\ (stage.pc = "ready") ~> (stage.pc = "returned")

C29_Witness ==
    /\ stage.pc = "returned"
    /\ stage_ret = Some(OkUnit)
    /\ stage.fuzz_time = Some(MaxFuzzTime)
    /\ stage.mutations = MaxLoop
    /\ stage.evals = MaxLoop
    /\ stage.elapsed = Some(MaxClock)

----------------------------------------------------------------------------
(* Properties of the macro-built chains, checked under SpecChain *)

\* The calls a chain makes when it evaluates its first k feedbacks in order.
EvaluatedPrefix(k) == [i \in 1..k |-> <<StubSeq[i], "is_interesting">>]

\* The first of n chained feedbacks that returns a verdict in stops or an
\* error; n when none does.
StopAt(v, n, stops) ==
    LET S == {k \in 1..n : ~v[StubSeq[k]].ok \/ v[StubSeq[k]].val \in stops}
    IN  IF S = {} THEN n ELSE CHOOSE k \in S : \A j \in S : k <= j

\* C26: in every run of a chain of n feedbacks built by a macro, the feedbacks
\* evaluated are f1..fk in the order of the arguments, each once: for
\* feedback_or_fast! fk is the first that returns true, for feedback_and_fast!
\* the first that returns false, for feedback_or! and feedback_and! fk is fn;
\* k = n when no feedback stops the chain. (A feedback that returns an error
\* ends the evaluation in all four.)
C26_ChainOrder ==
    op = "is_interesting" =>
      \A n \in 2..MaxChain :
        /\ name(fb) = name(feedback_or_fast(ChainStubs(n))) =>
              log = EvaluatedPrefix(StopAt(arg.verdict, n, {TRUE}))
        /\ name(fb) = name(feedback_and_fast(ChainStubs(n))) =>
              log = EvaluatedPrefix(StopAt(arg.verdict, n, {FALSE}))
        /\ name(fb) = name(feedback_or(ChainStubs(n))) =>
              log = EvaluatedPrefix(StopAt(arg.verdict, n, {}))
        /\ name(fb) = name(feedback_and(ChainStubs(n))) =>
              log = EvaluatedPrefix(StopAt(arg.verdict, n, {}))

C26_Witness ==
    /\ op = "is_interesting"
    /\ name(fb) = name(feedback_or_fast(ChainStubs(MaxChain)))
    /\ arg.verdict["A"] = Ok(FALSE)
    /\ arg.verdict["B"] = Ok(TRUE)
    /\ arg.verdict["C"] = Ok(TRUE)
    /\ log = EvaluatedPrefix(2)
    /\ fb.second.second.last_result = Some(FALSE)

----------------------------------------------------------------------------
(* Properties of the evaluation of an input, checked under SpecEvaluate *)

\* How often the method m of the user-supplied feedback n was called in a log.
MethodCalls(lg, n, m) == Cardinality({i \in 1..Len(lg) : lg[i] = <<n, m>>})

\* C24: an input whose run is interesting and hits the objective is added to
\* the solutions corpus and the main corpus stays as it was; append_metadata
\* is called once on every feedback of the objective and on none of the
\* interestingness feedback, discard_metadata once on every feedback of the
\* interestingness feedback and on none of the objective; and no input is in
\* both corpora.
C24_SolutionsOnly ==
    /\ ( /\ op = "evaluate_input"
         /\ run[1].interesting = Some(TRUE)
         /\ run[1].solution = Some(TRUE) ) =>
           /\ solutions = Append(run[1].solutions, run[1].n)
           /\ corpus = run[1].corpus
           /\ \A x \in StubsOf(twin) :
                 /\ MethodCalls(log, x, "append_metadata") = 1
                 /\ MethodCalls(log, x, "discard_metadata") = 0
           /\ \A x \in StubsOf(fb) :
                 /\ MethodCalls(log, x, "append_metadata") = 0
                 /\ MethodCalls(log, x, "discard_metadata") = 1
           /\ testcase.metadata = [i \in 1..Cardinality(StubsOf(twin)) |-> StubSeq[2 + i]]
    /\ \A i \in 1..Len(corpus), j \in 1..Len(solutions) : corpus[i] # solutions[j]
    /\ run # None => Len(corpus) + Len(solutions) <= run[1].n

C24_Witness ==
    /\ op = "evaluate_input"
    /\ run[1].n = 2
    /\ run[1].interesting = Some(TRUE)
    /\ run[1].solution = Some(TRUE)
    /\ corpus = <<1>>
    /\ solutions = <<2>>
    /\ StubsOf(fb) = {"A", "B"}
    /\ StubsOf(twin) = {"C", "D"}


----------------------------------------------------------------------------
(* Properties of the trees of combinators over exit-kind leaves, checked     *)
(* under SpecTree                                                            *)

RECURSIVE TrueNames(_)

\* The names of the nodes of a tree whose last_result is true.
TrueNames(f) ==
    (IF last_result(f) = Ok(TRUE) THEN {name(f)} ELSE {})
    \cup CASE f.kind = "CombinedFeedback" -> TrueNames(f.first) \cup TrueNames(f.second)
           [] f.kind = "NotFeedback" -> TrueNames(f.first)
           [] OTHER -> {}

\* C32: after a successful is_interesting call on a tree of combinators over
\* Crash/Timeout/DiffExitKind/Const leaves, append_hit_feedbacks on the root
\* succeeds and appends at least one name iff the root's last_result is true;
\* every appended name is the name of a node whose last_result is true; and
\* the entries the list had before are still there, in their places.
C32_HitsIffTrue ==
    (op = "append_hit_feedbacks" /\ run # None /\ run[1].ret.ok) =>
        /\ ret = OkUnit
        /\ last_result(fb).ok
        /\ Len(list) >= Len(arg.list)
        /\ SubSeq(list, 1, Len(arg.list)) = arg.list
        /\ (Len(list) > Len(arg.list)) <=> (last_result(fb) = Ok(TRUE))
        /\ \A i \in (Len(arg.list) + 1)..Len(list) : list[i] \in TrueNames(fb)

C32_Witness ==
    /\ op = "append_hit_feedbacks"
    /\ run # None
    /\ run[1].ret = Ok(TRUE)
    /\ fb.kind = "CombinedFeedback"
    /\ fb.logic = "LogicFastOr"
    /\ fb.first.kind = "ConstFeedback"
    /\ fb.second.kind = "CombinedFeedback"
    /\ fb.second.logic = "LogicEagerAnd"
    /\ run[1].env.exit_kind = [tag |-> "Timeout"]
    /\ arg.list = <<"earlier">>
    /\ list = <<"earlier", "TimeoutFeedback", "TimeoutFeedback">>


\* The eager combinator and its fast variant answered the most recent call alike.
SameAnswers ==
    /\ twin_out.ret = ret
    /\ twin_out.list = list
    /\ twin.first = fb.first

\* C34 as claimed: over every sequence of runs, the empty one included,
\* EagerOr(A, B) and FastOr(A, B), and EagerAnd(A, B) and FastAnd(A, B), over
\* two leaves whose verdict depends on the exit kind alone, give the same
\* is_interesting verdict, last_result and hit list.
C34_AsClaimed ==
    (IsEager(fb) /\ IsLeaf(fb.first) /\ IsLeaf(fb.second)) => SameAnswers

\* C34: once a run has been evaluated, an eager combinator and its fast variant
\* over the same children (leaves that read only the exit kind, or trees of
\* them) give the same is_interesting verdict, the same root last_result and
\* the same hit list after every further run, and hold the same first child;
\* they are apart only in the second child, which the fast variant may not
\* have invoked.
C34_EagerFastAlike ==
    (IsEager(fb) /\ run # None) =>
        /\ SameAnswers
        /\ (IsLeaf(fb.second) /\ twin.second # fb.second) =>
              last_result(twin.first) = Ok(twin.logic = "LogicFastOr")

C34_Witness ==
    /\ IsEager(fb)
    /\ fb.logic = "LogicEagerOr"
    /\ fb.first.kind = "CrashFeedback"
    /\ fb.second.kind = "TimeoutFeedback"
    /\ run # None
    /\ run[1].env.exit_kind = [tag |-> "Crash"]
    /\ fb.second.last_result = Some(FALSE)
    /\ twin.second.last_result = Some(TRUE)
    /\ op = "append_hit_feedbacks"
    /\ ret = OkUnit
    /\ list = <<"CrashFeedback">>
    /\ twin_out.list = list


----------------------------------------------------------------------------
(* Properties of stages constructed under two names, checked under SpecNames *)

\* The step is a call of the method m with the name n.
Called(m, n) == stage'.cfg_call # None /\ stage'.cfg_call[1][1] = m /\ stage'.cfg_call[1][2] = n

\* Every entry of the map but the one under n is as it was.
OthersKept(n) ==
    /\ DOMAIN named_metadata \ {n} = DOMAIN named_metadata' \ {n}
    /\ \A k \in DOMAIN named_metadata \ {n} : named_metadata'[k] = named_metadata[k]

\* C35: constructing a stage under a name installs iters = None and fuzz_time
\* = None under that name only if the name has no configuration; constructing
\* one under a name that has a configuration leaves the stored iters and
\* fuzz_time as they are; and no step removes an entry, so that from the
\* construction on both getters succeed for the name.
C35_Construct ==
    /\ [][ \A n \in ConfigNames :
            /\ Called("with_name", n) =>
                  /\ OthersKept(n)
                  /\ n \in DOMAIN named_metadata'
                  /\ named_metadata'[n] =
                        IF n \in DOMAIN named_metadata
                        THEN named_metadata[n]
                        ELSE [iters |-> None, fuzz_time |-> None]
            /\ n \in DOMAIN named_metadata => n \in DOMAIN named_metadata' ]_vars
    /\ [](\A n \in DOMAIN named_metadata :
            /\ get_iters_by_name(named_metadata, n) = Ok(named_metadata[n].iters)
            /\ get_seed_fuzz_time_by_name(named_metadata, n) = Ok(named_metadata[n].fuzz_time))

\* A second stage was constructed under a name whose configuration was set.
C35_Witness ==
    /\ stage.cfg_call = Some(<<"with_name", "OtherStage", OkUnit>>)
    /\ DOMAIN named_metadata = ConfigNames
    /\ named_metadata["OtherStage"] = [iters |-> Some(2), fuzz_time |-> Some(1)]
    /\ get_iters_by_name(named_metadata, "OtherStage") = Ok(Some(2))

\* C36: set_iters_by_name(n, name) leaves fuzz_time of that name and both
\* fields of every other name as they were, set_seed_fuzz_time_by_name leaves
\* iters of that name and every other name as they were, and reset_by_name
\* leaves the configuration of every other name as it was.
C36_SettersFrame ==
    [][ \A n \in ConfigNames :
          /\ Called("set_iters", n) =>
                /\ OthersKept(n)
                /\ (n \in DOMAIN named_metadata) = (n \in DOMAIN named_metadata')
                /\ n \in DOMAIN named_metadata =>
                      named_metadata'[n].fuzz_time = named_metadata[n].fuzz_time
          /\ Called("set_seed_fuzz_time", n) =>
                /\ OthersKept(n)
                /\ (n \in DOMAIN named_metadata) = (n \in DOMAIN named_metadata')
                /\ n \in DOMAIN named_metadata =>
                      named_metadata'[n].iters = named_metadata[n].iters
          /\ Called("reset", n) =>
                /\ OthersKept(n)
                /\ (n \in DOMAIN named_metadata) = (n \in DOMAIN named_metadata') ]_vars

\* The default-named stage was reset while the other stage stays configured.
C36_Witness ==
    /\ stage.cfg_call = Some(<<"reset", STD_TUNEABLE_MUTATIONAL_STAGE_NAME, OkUnit>>)
    /\ named_metadata[STD_TUNEABLE_MUTATIONAL_STAGE_NAME] = [iters |-> None, fuzz_time |-> None]
    /\ "OtherStage" \in DOMAIN named_metadata
    /\ named_metadata["OtherStage"] = [iters |-> Some(1), fuzz_time |-> Some(2)]


----------------------------------------------------------------------------
(* Properties of the baby_fuzzer_custom_input example, checked under SpecBaby *)

\* The input the example is built to find.
Trigger(input) ==
    /\ input.byte_array = <<97>>
    /\ input.optional_byte_array = Some(<<98>>)
    /\ input.boolean = TRUE

\* C37: the harness crashes only on the inputs with byte_array = [b'a'],
\* optional_byte_array = Some([b'b']) and boolean = true (and does crash on
\* them on unix and windows) and returns ExitKind::Ok on every other input;
\* every entry of the solutions corpus is such an input, and no entry of the
\* main corpus is.
C37_CrashesOnly ==
    /\ op = "evaluate_input" =>
          /\ arg.exit_kind = [tag |-> "Crash"] => Trigger(run[1].input)
          /\ ~Trigger(run[1].input) => arg.exit_kind = [tag |-> "Ok"]
          /\ (Trigger(run[1].input) /\ run[1].target \in {"unix", "windows"}) =>
                arg.exit_kind = [tag |-> "Crash"]
    /\ \A i \in 1..Len(solutions) : Trigger(solutions[i])
    /\ \A i \in 1..Len(corpus) : ~Trigger(corpus[i])

C37_Witness ==
    /\ op = "evaluate_input"
    /\ Trigger(run[1].input)
    /\ run[1].target = "unix"
    /\ arg.verdict["A"] = Ok(TRUE)
    /\ ret = Ok("Solution")
    /\ Len(solutions) = 1
    /\ Len(corpus) = 1
    /\ corpus[1] = [byte_array |-> <<97>>, optional_byte_array |-> Some(<<98>>), boolean |-> FALSE]

====
